---- MODULE Spec2Model ----
(***************************************************************************)
(* A model of the transaction-id generator of SaveAmerica/DonaldX:         *)
(* ClientTransaction.create, the animation-key derivation, and             *)
(* generateTransactionId (src/unnamed/part_001), and floatToHex            *)
(* (src/src/helpers/transaction/utils.ts).                                 *)
(*                                                                         *)
(* Strings are sequences of one-character strings.  A JavaScript value     *)
(* that may be absent (null, undefined, a field not yet assigned) is       *)
(* None == << >> or Some(v) == << v >>.                                    *)
(***************************************************************************)
EXTENDS Integers, Sequences, FiniteSets, TLC

None == << >>
Some(v) == << v >>

(***************************************************************************)
(* Bounds of the model.                                                    *)
(***************************************************************************)
\* generateTransactionId calls that may be in flight on the one instance
MaxCalls == 2
\* how many times the clock advances
MaxTicks == 1
\* floatToHex is applied to i + f/HexScale for every integer part i up to this
MaxHexInt == 300
\* iterations of the bisection loop of Cubic.getValue that the model follows
MaxBisect == 64
\* interpolate is applied to lists of at most this many values
MaxListLen == 2

(***************************************************************************)
(* Characters.                                                             *)
(***************************************************************************)
B64Alphabet ==
  <<"A","B","C","D","E","F","G","H","I","J","K","L","M","N","O","P","Q","R",
    "S","T","U","V","W","X","Y","Z","a","b","c","d","e","f","g","h","i","j",
    "k","l","m","n","o","p","q","r","s","t","u","v","w","x","y","z","0","1",
    "2","3","4","5","6","7","8","9","+","/">>

DecimalDigits == <<"0","1","2","3","4","5","6","7","8","9">>

LowerHexDigits ==
  <<"0","1","2","3","4","5","6","7","8","9","a","b","c","d","e","f">>

\* String.fromCharCode for the codes of the capital letters (65..90)
FromCharCode(code) == B64Alphabet[code - 64]

IsDigit(c) == \E i \in 1..10 : DecimalDigits[i] = c

DigitValue(c) == (CHOOSE i \in 1..10 : DecimalDigits[i] = c) - 1

IsB64Char(c) == \E i \in 1..64 : B64Alphabet[i] = c

B64Value(c) == (CHOOSE i \in 1..64 : B64Alphabet[i] = c) - 1

IsAsciiWhitespace(c) == c \in {" ", "\t", "\n", "\r", "\f"}

RECURSIVE Concat(_)
\* Array.prototype.join('') of a sequence of strings
Concat(parts) ==
  IF parts = << >> THEN << >> ELSE Head(parts) \o Concat(Tail(parts))

RECURSIVE NatToString(_, _)
\* Number.prototype.toString(radix) of a natural number, over a digit table
NatToString(n, digits) ==
  LET radix == Len(digits) IN
  IF n < radix THEN << digits[n + 1] >>
  ELSE NatToString(n \div radix, digits) \o << digits[(n % radix) + 1] >>

\* `${n}` of an integer
IntToString(n) ==
  IF n < 0 THEN <<"-">> \o NatToString(-n, DecimalDigits)
  ELSE NatToString(n, DecimalDigits)

(***************************************************************************)
(* Bytes.                                                                  *)
(***************************************************************************)
RECURSIVE BitXor(_, _)
\* a ^ b on naturals
BitXor(a, b) ==
  IF a = 0 THEN b
  ELSE IF b = 0 THEN a
  ELSE ((a + b) % 2) + 2 * BitXor(a \div 2, b \div 2)

\* a store into a Uint8Array: the value is taken modulo 256, and a store at an
\* index outside the array is ignored (indices are 0-based as in the source)
Uint8Store(arr, index, value) ==
  IF index >= 0 /\ index < Len(arr)
  THEN [arr EXCEPT ![index + 1] = value % 256]
  ELSE arr

\* new Uint8Array(n)
Uint8Zeroes(n) == [i \in 1..n |-> 0]

(***************************************************************************)
(* base64.  A function that can throw returns [ok |-> FALSE] or            *)
(* [ok |-> TRUE, val |-> v].                                               *)
(***************************************************************************)
Threw == [ok |-> FALSE, val |-> << >>]
Returned(v) == [ok |-> TRUE, val |-> v]

\* atob: the forgiving base64 decode; the result is the binary string as the
\* sequence of its char codes
atob(s) ==
  LET t == SelectSeq(s, LAMBDA c : ~IsAsciiWhitespace(c))
      n == Len(t)
      u == IF n > 0 /\ n % 4 = 0 /\ t[n] = "="
           THEN IF t[n - 1] = "=" THEN SubSeq(t, 1, n - 2) ELSE SubSeq(t, 1, n - 1)
           ELSE t
      m == Len(u)
      v(j) == B64Value(u[j + 1])
      byte(k) ==
        LET j == (8 * k) \div 6
            off == (8 * k) % 6
        IN  IF off = 0 THEN v(j) * 4 + v(j + 1) \div 16
            ELSE IF off = 2 THEN (v(j) % 16) * 16 + v(j + 1) \div 4
            ELSE (v(j) % 4) * 64 + v(j + 1)
  IN  IF m % 4 = 1 \/ \E i \in 1..m : ~IsB64Char(u[i])
      THEN Threw
      ELSE Returned([k \in 1..((6 * m) \div 8) |-> byte(k - 1)])

\* btoa(String.fromCharCode(...bytes))
base64Encode(bytes) ==
  LET n == Len(bytes)
      b(k) == IF k < n THEN bytes[k + 1] ELSE 0
      nchars == (8 * n + 5) \div 6
      v(j) ==
        LET k == (6 * j) \div 8
            off == (6 * j) % 8
        IN  IF off = 0 THEN b(k) \div 4
            ELSE IF off = 6 THEN (b(k) % 4) * 16 + b(k + 1) \div 16
            ELSE IF off = 4 THEN (b(k) % 16) * 4 + b(k + 1) \div 64
            ELSE b(k) % 64
      padded == 4 * ((nchars + 3) \div 4)
  IN  [j \in 1..padded |-> IF j <= nchars THEN B64Alphabet[v(j - 1) + 1] ELSE "="]

\* str.replace(/=/g, '')
StripPadding(s) == SelectSeq(s, LAMBDA c : c # "=")

(***************************************************************************)
(* Natural numbers beyond the machine word, for the 53-bit significands of *)
(* JavaScript numbers: a natural is the sequence of its digits in base     *)
(* LimbBase, least significant first, without leading zero digits (0 is    *)
(* the empty sequence).                                                    *)
(***************************************************************************)
LimbBits == 13
LimbBase == 2 ^ LimbBits

\* drop the zero digits at the most significant end
NNorm(a) ==
  LET nz == {i \in 1..Len(a) : a[i] # 0} IN
  IF nz = {} THEN << >> ELSE SubSeq(a, 1, CHOOSE i \in nz : \A j \in nz : j <= i)

NDigit(a, i) == IF i >= 1 /\ i <= Len(a) THEN a[i] ELSE 0

NMax(x, y) == IF x >= y THEN x ELSE y

NMin(x, y) == IF x <= y THEN x ELSE y

\* a small non-negative integer as a natural
NFromInt(n) ==
  NNorm(<< n % LimbBase, (n \div LimbBase) % LimbBase, n \div (LimbBase * LimbBase) >>)

\* the carry into column k of a + b: a lower column overflows and every
\* column between the two is full
NAddCarry(a, b, k) ==
  IF \E j \in 1..(k - 1) :
       /\ NDigit(a, j) + NDigit(b, j) >= LimbBase
       /\ \A i \in (j + 1)..(k - 1) : NDigit(a, i) + NDigit(b, i) = LimbBase - 1
  THEN 1 ELSE 0

NAdd(a, b) ==
  NNorm([k \in 1..(NMax(Len(a), Len(b)) + 1) |->
           (NDigit(a, k) + NDigit(b, k) + NAddCarry(a, b, k)) % LimbBase])

\* the borrow from column k of a - b: a lower column falls short and every
\* column between the two is level
NSubBorrow(a, b, k) ==
  IF \E j \in 1..(k - 1) :
       /\ NDigit(a, j) < NDigit(b, j)
       /\ \A i \in (j + 1)..(k - 1) : NDigit(a, i) = NDigit(b, i)
  THEN 1 ELSE 0

\* a - b for a >= b
NSub(a, b) ==
  NNorm([k \in 1..NMax(Len(a), Len(b)) |->
           (NDigit(a, k) - NDigit(b, k) - NSubBorrow(a, b, k)) % LimbBase])

\* column k of a * b, for a of at most 5 digits: the sum of a[i] * b[k + 1 - i]
NColumn(a, b, k) ==
  (NDigit(a, 1) * NDigit(b, k)) + (NDigit(a, 2) * NDigit(b, k - 1))
    + (NDigit(a, 3) * NDigit(b, k - 2)) + (NDigit(a, 4) * NDigit(b, k - 3))
    + (NDigit(a, 5) * NDigit(b, k - 4))

\* a * b, for a of at most 5 digits: each column is split into three digits,
\* which are summed at their places
NMul(a, b) ==
  NAdd(NAdd([k \in 1..(Len(a) + Len(b)) |-> NColumn(a, b, k) % LimbBase],
            [k \in 1..(Len(a) + Len(b)) |->
               (NColumn(a, b, k - 1) \div LimbBase) % LimbBase]),
       [k \in 1..(Len(a) + Len(b)) |->
          NColumn(a, b, k - 2) \div (LimbBase * LimbBase)])

\* -1, 0 or 1 as a < b, a = b or a > b
NCmp(a, b) ==
  IF Len(a) # Len(b) THEN (IF Len(a) < Len(b) THEN -1 ELSE 1)
  ELSE LET diff == {i \in 1..Len(a) : a[i] # b[i]} IN
       IF diff = {} THEN 0
       ELSE LET top == CHOOSE i \in diff : \A j \in diff : j <= i IN
            IF a[top] < b[top] THEN -1 ELSE 1

\* the number of bits of a
NBitLen(a) ==
  IF a = << >> THEN 0
  ELSE LimbBits * (Len(a) - 1)
       + (CHOOSE k \in 1..LimbBits : 2 ^ (k - 1) <= a[Len(a)] /\ a[Len(a)] < 2 ^ k)

\* a * 2 ^ bits
NShl(a, bits) ==
  IF a = << >> THEN << >>
  ELSE [i \in 1..(bits \div LimbBits) |-> 0]
       \o NNorm([k \in 1..(Len(a) + 1) |->
                   ((NDigit(a, k) * 2 ^ (bits % LimbBits)) % LimbBase)
                   + ((NDigit(a, k - 1) * 2 ^ (bits % LimbBits)) \div LimbBase)])

\* floor(a / 2 ^ bits)
NShr(a, bits) ==
  LET whole == bits \div LimbBits
      part == 2 ^ (bits % LimbBits)
      kept == IF whole >= Len(a) THEN << >> ELSE SubSeq(a, whole + 1, Len(a))
  IN  NNorm([i \in 1..Len(kept) |->
               (kept[i] \div part) + (NDigit(kept, i + 1) % part) * (LimbBase \div part)])

(***************************************************************************)
(* JavaScript numbers (IEEE 754 binary64) as the arithmetic of Cubic and   *)
(* interpolate uses them.  A number is [neg, mant, exp], its value being   *)
(* mant * 2 ^ exp, negated when neg; mant is a natural of exactly          *)
(* SignificandBits bits, or 0 (with exp = 0, neg = FALSE: the two zeros    *)
(* are one here).  Every operation rounds its exact result to the nearest  *)
(* number, ties to the even significand.  The numbers of the model stay    *)
(* within the normal range, so overflow, subnormals, infinities and NaN    *)
(* do not occur.                                                           *)
(***************************************************************************)
SignificandBits == 53

FZero == [neg |-> FALSE, mant |-> << >>, exp |-> 0]

\* q * 2 ^ e, for q of SignificandBits bits, rounded up by one in the last
\* place or left as it is: c tells whether the bits cut off q are below (-1),
\* at (0) or above (1) one half of the last place
FNearest(neg, q, c, e) ==
  IF c = 1 \/ (c = 0 /\ q[1] % 2 = 1)
  THEN IF NBitLen(NAdd(q, << 1 >>)) > SignificandBits
       THEN [neg |-> neg, mant |-> NShr(NAdd(q, << 1 >>), 1), exp |-> e + 1]
       ELSE [neg |-> neg, mant |-> NAdd(q, << 1 >>), exp |-> e]
  ELSE [neg |-> neg, mant |-> q, exp |-> e]

\* n * 2 ^ e rounded, n having d bits too many and q being n without them
FCut(neg, n, e, d, q) ==
  FNearest(neg, q, NCmp(NSub(n, NShl(q, d)), NShl(<< 1 >>, d - 1)), e + d)

\* the number nearest to n * 2 ^ e (negated when neg)
FRound(neg, n, e) ==
  IF n = << >> THEN FZero
  ELSE IF NBitLen(n) <= SignificandBits
  THEN [neg |-> neg, mant |-> NShl(n, SignificandBits - NBitLen(n)),
        exp |-> e - (SignificandBits - NBitLen(n))]
  ELSE FCut(neg, n, e, NBitLen(n) - SignificandBits,
            NShr(n, NBitLen(n) - SignificandBits))

\* the number n * 2 ^ e for a small integer n
FDyadic(n, e) == FRound(n < 0, NFromInt(IF n < 0 THEN 0 - n ELSE n), e)

FFromInt(n) == FDyadic(n, 0)

FAbs(a) == [a EXCEPT !.neg = FALSE]

\* the sum of x * 2 ^ e (negated when aneg) and y * 2 ^ e (negated when bneg)
FAddAligned(aneg, x, bneg, y, e) ==
  IF aneg = bneg THEN FRound(aneg, NAdd(x, y), e)
  ELSE IF NCmp(x, y) >= 0 THEN FRound(aneg, NSub(x, y), e)
  ELSE FRound(bneg, NSub(y, x), e)

\* a + b
FAdd(a, b) ==
  IF a.mant = << >> THEN b
  ELSE IF b.mant = << >> THEN a
  ELSE FAddAligned(a.neg, NShl(a.mant, a.exp - NMin(a.exp, b.exp)),
                   b.neg, NShl(b.mant, b.exp - NMin(a.exp, b.exp)),
                   NMin(a.exp, b.exp))

\* a - b
FSub(a, b) == FAdd(a, IF b.mant = << >> THEN b ELSE [b EXCEPT !.neg = ~b.neg])

\* a * b
FMul(a, b) ==
  IF a.mant = << >> \/ b.mant = << >> THEN FZero
  ELSE FRound(a.neg # b.neg, NMul(a.mant, b.mant), a.exp + b.exp)

\* the quotient of two significands is developed in QuotientDigits digits
\* of QuotientDigitBits bits
QuotientDigits == 5
QuotientDigitBits == (SignificandBits + 2) \div QuotientDigits

\* floor(r2 / den), which is within one of est
FDivDigit(r2, den, est) ==
  CHOOSE d \in NMax(est - 2, 0)..(est + 2) :
    /\ NCmp(NMul(NFromInt(d), den), r2) <= 0
    /\ NCmp(NMul(NFromInt(d + 1), den), r2) > 0

\* the quotient q and the remainder r2 after the quotient digit digit
FDivNext(q, r2, den, digit) ==
  [q |-> NAdd(NShl(q, QuotientDigitBits), NFromInt(digit)),
   r |-> NSub(r2, NMul(NFromInt(digit), den))]

\* the leading LimbBits + 2 bits of den, and the bits of r2 above the others
FDivLeading(n) ==
  NDigit(NShr(n, SignificandBits - (LimbBits + 2)), 1)
    + (LimbBase * NDigit(NShr(n, SignificandBits - (LimbBits + 2)), 2))

\* long division, one digit: st.q is the quotient so far and st.r the
\* remainder (st.r < den, den of SignificandBits bits); r2 is the remainder
\* moved up by one digit, and the quotient of the leading bits of r2 and den
\* estimates the digit
FDivShifted(q, r2, den) ==
  FDivNext(q, r2, den, FDivDigit(r2, den, FDivLeading(r2) \div FDivLeading(den)))

FDivStep(st, den) == FDivShifted(st.q, NShl(st.r, QuotientDigitBits), den)

RECURSIVE FDivDigits(_, _, _)
\* steps more digits of the quotient: zeros once no remainder is left
FDivDigits(st, den, steps) ==
  IF steps = 0 THEN st
  ELSE IF st.r = << >>
  THEN [q |-> NShl(st.q, steps * QuotientDigitBits), r |-> << >>]
  ELSE FDivDigits(FDivStep(st, den), den, steps - 1)

\* the number nearest to the quotient, d.q being its leading
\* SignificandBits + 2 bits; one more bit tells whether a remainder is left
FDivRounded(neg, d, e) ==
  IF d.r = << >> THEN FRound(neg, d.q, e + 1)
  ELSE FRound(neg, NAdd(NAdd(d.q, d.q), << 1 >>), e)

\* a / b for b # 0
FDiv(a, b) ==
  IF a.mant = << >> THEN FZero
  ELSE FDivRounded(a.neg # b.neg,
                   FDivDigits(IF NCmp(a.mant, b.mant) >= 0
                              THEN [q |-> << 1 >>, r |-> NSub(a.mant, b.mant)]
                              ELSE [q |-> << >>, r |-> a.mant],
                              b.mant, QuotientDigits),
                   a.exp - b.exp - (SignificandBits + 3))

\* a < b
FLess(a, b) ==
  IF a.mant = << >> THEN b.mant # << >> /\ ~b.neg
  ELSE IF b.mant = << >> THEN a.neg
  ELSE IF a.neg # b.neg THEN a.neg
  ELSE IF a.exp # b.exp THEN (a.exp < b.exp) # a.neg
  ELSE NCmp(a.mant, b.mant) = (IF a.neg THEN 1 ELSE -1)

\* -a
FNeg(a) == IF a.mant = << >> THEN a ELSE [a EXCEPT !.neg = ~a.neg]

\* a natural of at most three digits as an integer
NToInt(n) == NDigit(n, 1) + LimbBase * (NDigit(n, 2) + LimbBase * NDigit(n, 3))

\* |a| without its fraction, as a natural
FTruncNat(a) ==
  IF a.exp >= 0 THEN NShl(a.mant, a.exp) ELSE NShr(a.mant, 0 - a.exp)

\* whether a is an integer
FIsInteger(a) == a.exp >= 0 \/ NShl(FTruncNat(a), 0 - a.exp) = a.mant

\* Math.floor
MathFloor(a) ==
  IF FIsInteger(a) THEN a
  ELSE IF a.neg THEN FRound(TRUE, NAdd(FTruncNat(a), << 1 >>), 0)
  ELSE FRound(FALSE, FTruncNat(a), 0)

\* Math.round of a number a >= 0, as a natural: floor(a + 1/2) of the exact
\* value of a
MathRoundNat(a) ==
  IF a.exp >= 0 THEN NShl(a.mant, a.exp)
  ELSE NShr(NAdd(a.mant, NShl(<< 1 >>, (0 - a.exp) - 1)), 0 - a.exp)

\* n.toString(16) for a non-negative integer n, given as a natural
NToString16(n) ==
  IF n = << >> THEN <<"0">>
  ELSE SubSeq([i \in 1..((NBitLen(n) + 3) \div 4) |->
                 LowerHexDigits[(NDigit(NShr(n, 4 * (((NBitLen(n) + 3) \div 4) - i)), 1)
                                 % 16) + 1]],
              1, (NBitLen(n) + 3) \div 4)

\* the integer nearest to |a| * 100, half-way cases away from zero, on the
\* exact value of a: the digits a.toFixed(2) writes, without the point
ToFixed2Digits(a) ==
  IF a.exp >= 0 THEN NShl(NMul(a.mant, NFromInt(100)), a.exp)
  ELSE NShr(NAdd(NMul(a.mant, NFromInt(100)), NShl(<< 1 >>, (0 - a.exp) - 1)),
            0 - a.exp)

\* Number(a.toFixed(2)): the number nearest to the decimal that toFixed
\* writes (an integer a is written exactly and read back as itself)
NumberToFixed2(a) ==
  IF a.exp >= 0 THEN a
  ELSE FDiv(FRound(a.neg, ToFixed2Digits(a), 0), FFromInt(100))

(***************************************************************************)
(* Math.cos and Math.sin, as the engine computes them (fdlibm: the         *)
(* argument is reduced by multiples of pi/2 and a polynomial is evaluated  *)
(* on the remainder, every operation being one of JavaScript numbers).     *)
(* The arguments of the model lie below 2 ^ 19 * pi/2, where the reduction *)
(* is the one written here.                                                *)
(***************************************************************************)
\* MathPI = 3.141592653589793 (bits 400921FB 54442D18)
MathPI == [neg |-> FALSE, mant |-> << 3352, 545, 7893, 4675, 1 >>, exp |-> -51]

\* invpio2 = 0.6366197723675814 (bits 3FE45F30 6DC9C883)
invpio2 == [neg |-> FALSE, mant |-> << 2179, 3662, 3099, 2238, 1 >>, exp |-> -53]

\* pio2_1 = 1.5707963267341256 (bits 3FF921FB 54400000)
pio2_1 == [neg |-> FALSE, mant |-> << 0, 512, 7893, 4675, 1 >>, exp |-> -52]

\* pio2_1t = 6.077100506506192e-11 (bits 3DD0B461 1A626331)
pio2_1t == [neg |-> FALSE, mant |-> << 817, 4883, 6214, 360, 1 >>, exp |-> -86]

\* pio2_2 = 6.077100506303966e-11 (bits 3DD0B461 1A600000)
pio2_2 == [neg |-> FALSE, mant |-> << 0, 4864, 6214, 360, 1 >>, exp |-> -86]

\* pio2_2t = 2.0222662487959506e-21 (bits 3BA3198A 2E037073)
pio2_2t == [neg |-> FALSE, mant |-> << 4211, 4123, 651, 1587, 1 >>, exp |-> -121]

\* pio2_3 = 2.0222662487111665e-21 (bits 3BA3198A 2E000000)
pio2_3 == [neg |-> FALSE, mant |-> << 0, 4096, 651, 1587, 1 >>, exp |-> -121]

\* pio2_3t = 8.4784276603689e-32 (bits 397B839A 252049C1)
pio2_3t == [neg |-> FALSE, mant |-> << 2497, 2306, 1673, 5895, 1 >>, exp |-> -156]

\* SinS1 = -0.16666666666666632 (bits BFC55555 55555549)
SinS1 == [neg |-> TRUE, mant |-> << 5449, 2730, 5461, 2730, 1 >>, exp |-> -55]

\* SinS2 = 0.00833333333332249 (bits 3F811111 1110F8A6)
SinS2 == [neg |-> FALSE, mant |-> << 6310, 2183, 1092, 546, 1 >>, exp |-> -59]

\* SinS3 = -0.0001984126982985795 (bits BF2A01A0 19C161D5)
SinS3 == [neg |-> TRUE, mant |-> << 469, 3595, 2054, 5123, 1 >>, exp |-> -65]

\* SinS4 = 2.7557313707070068e-06 (bits 3EC71DE3 57B1FE7D)
SinS4 == [neg |-> FALSE, mant |-> << 7805, 7567, 6357, 3643, 1 >>, exp |-> -71]

\* SinS5 = -2.5050760253406863e-08 (bits BE5AE5E6 8A2B9CEB)
SinS5 == [neg |-> TRUE, mant |-> << 7403, 4444, 6562, 5579, 1 >>, exp |-> -78]

\* SinS6 = 1.58969099521155e-10 (bits 3DE5D93A 5ACFD57C)
SinS6 == [neg |-> FALSE, mant |-> << 5500, 5758, 3734, 2994, 1 >>, exp |-> -85]

\* CosC1 = 0.0416666666666666 (bits 3FA55555 5555554C)
CosC1 == [neg |-> FALSE, mant |-> << 5452, 2730, 5461, 2730, 1 >>, exp |-> -57]

\* CosC2 = -0.001388888888887411 (bits BF56C16C 16C15177)
CosC2 == [neg |-> TRUE, mant |-> << 4471, 5642, 6917, 3458, 1 >>, exp |-> -62]

\* CosC3 = 2.480158728947673e-05 (bits 3EFA01A0 19CB1590)
CosC3 == [neg |-> FALSE, mant |-> << 5520, 3672, 2054, 5123, 1 >>, exp |-> -68]

\* CosC4 = -2.7557314351390663e-07 (bits BE927E4F 809C52AD)
CosC4 == [neg |-> TRUE, mant |-> << 4781, 1250, 5088, 1276, 1 >>, exp |-> -74]

\* CosC5 = 2.087572321298175e-09 (bits 3E21EE9E BDB4B1C4)
CosC5 == [neg |-> FALSE, mant |-> << 4548, 3493, 1967, 989, 1 >>, exp |-> -81]

\* CosC6 = -1.1359647557788195e-11 (bits BDA8FAE9 BE8838D4)
CosC6 == [neg |-> TRUE, mant |-> << 6356, 5185, 6767, 4597, 1 >>, exp |-> -89]

npio2_hw ==
  << 1073291771, 1074340347, 1074977148, 1075388923,
     1075800698, 1076025724, 1076231611, 1076437499,
     1076643386, 1076849274, 1076971356, 1077074300,
     1077177244, 1077280187, 1077383131, 1077486075,
     1077589019, 1077691962, 1077794906, 1077897850,
     1077968460, 1078019932, 1078071404, 1078122876,
     1078174348, 1078225820, 1078277292, 1078328763,
     1078380235, 1078431707, 1078483179, 1078534651 >>

FOne == FFromInt(1)

FHalf == FDyadic(1, -1)

\* the high word of |x|: the biased exponent and the first 20 bits of the
\* fraction
HighWord(x) ==
  IF x.mant = << >> THEN 0
  ELSE (x.exp + 1075) * (2 ^ 20) + (NToInt(NShr(x.mant, 32)) - 2 ^ 20)

\* SinS2 + z * (SinS3 + z * (SinS4 + z * (SinS5 + z * SinS6)))
KernelSinPoly(z) ==
  FAdd(SinS2, FMul(z, FAdd(SinS3, FMul(z, FAdd(SinS4, FMul(z, FAdd(SinS5, FMul(z, SinS6))))))))

KernelSinResult(x, y, iy, z, v, r) ==
  IF iy = 0 THEN FAdd(x, FMul(v, FAdd(SinS1, FMul(z, r))))
  ELSE FSub(x, FSub(FSub(FMul(z, FSub(FMul(FHalf, y), FMul(v, r))), y),
                    FMul(v, SinS1)))

KernelSinOf(x, y, iy, z) == KernelSinResult(x, y, iy, z, FMul(z, x), KernelSinPoly(z))

\* sin(x + y) for |x| <= pi/4, y being the tail of x (taken as 0 when iy = 0)
kernel_sin(x, y, iy) ==
  IF HighWord(x) < \H3E400000 THEN x ELSE KernelSinOf(x, y, iy, FMul(x, x))

\* z * (CosC1 + z * (CosC2 + z * (CosC3 + z * (CosC4 + z * (CosC5 + z * CosC6)))))
KernelCosPoly(z) ==
  FMul(z, FAdd(CosC1, FMul(z, FAdd(CosC2, FMul(z, FAdd(CosC3, FMul(z,
       FAdd(CosC4, FMul(z, FAdd(CosC5, FMul(z, CosC6)))))))))))

\* qx: 0.28125 above 0.78125, else x / 4 cut to the first 20 fraction bits
KernelCosQx(x) ==
  IF HighWord(x) > \H3FE90000 THEN FDyadic(9, -5)
  ELSE [neg |-> FALSE, mant |-> NShl(NShr(x.mant, 32), 32), exp |-> x.exp - 2]

KernelCosLarge(x, y, z, r, qx) ==
  FSub(FSub(FOne, qx), FSub(FSub(FMul(FHalf, z), qx), FSub(FMul(z, r), FMul(x, y))))

KernelCosResult(x, y, z, r) ==
  IF HighWord(x) < \H3FD33333
  THEN FSub(FOne, FSub(FMul(FHalf, z), FSub(FMul(z, r), FMul(x, y))))
  ELSE KernelCosLarge(x, y, z, r, KernelCosQx(x))

KernelCosOf(x, y, z) == KernelCosResult(x, y, z, KernelCosPoly(z))

\* cos(x + y) for |x| <= pi/4, y being the tail of x
kernel_cos(x, y) ==
  IF HighWord(x) < \H3E400000 THEN FOne ELSE KernelCosOf(x, y, FMul(x, x))

\* the remainder y0 + y1 once y0 is known
RemPio2Result(n, r, w, y0) == [n |-> n, y0 |-> y0, y1 |-> FSub(FSub(r, y0), w)]

RemPio2Negated(res) ==
  [n |-> 0 - res.n, y0 |-> FNeg(res.y0), y1 |-> FNeg(res.y1)]

\* pi/2 < |x| < 3 pi/4, for t = |x|: n = 1, with more bits of pi/2 near pi/2
RemPio2Near(t, z) ==
  IF HighWord(t) # \H3FF921FB
  THEN RemPio2Result(1, z, pio2_1t, FSub(z, pio2_1t))
  ELSE RemPio2Result(1, FSub(z, pio2_2), pio2_2t, FSub(FSub(z, pio2_2), pio2_2t))

\* the exponent field of y0 below that of the argument
RemPio2Lost(t, y0) == (HighWord(t) \div (2 ^ 20)) - (HighWord(y0) \div (2 ^ 20))

\* one more round: r and w from the next piece p of pi/2 and its tail pt
RemPio2Next(fn, t, w, r, pt) == [r |-> r, w |-> FSub(FMul(fn, pt), FSub(FSub(t, r), w))]

RemPio2Round(fn, t, p, pt) ==
  RemPio2Next(fn, t, FMul(fn, p), FSub(t, FMul(fn, p)), pt)

RemPio2Finish(n, st) == RemPio2Result(n, st.r, st.w, FSub(st.r, st.w))

RemPio2Third(t, n, st) ==
  IF RemPio2Lost(t, FSub(st.r, st.w)) > 49
  THEN RemPio2Finish(n, RemPio2Round(FFromInt(n), st.r, pio2_3, pio2_3t))
  ELSE RemPio2Finish(n, st)

\* lines of the first round: no second round when n < 32 and x is not near
\* a multiple of pi/2, or when few bits were lost
RemPio2Second(t, n, st) ==
  IF n < 32 /\ HighWord(t) # npio2_hw[n] THEN RemPio2Finish(n, st)
  ELSE IF RemPio2Lost(t, FSub(st.r, st.w)) > 16
  THEN RemPio2Third(t, n, RemPio2Round(FFromInt(n), st.r, pio2_2, pio2_2t))
  ELSE RemPio2Finish(n, st)

\* |x| up to 2 ^ 19 * pi/2, for t = |x|: n is t * invpio2 + half cut to an
\* integer
RemPio2Medium(t, n) ==
  RemPio2Second(t, n, [r |-> FSub(t, FMul(FFromInt(n), pio2_1)),
                       w |-> FMul(FFromInt(n), pio2_1t)])

RemPio2Abs(t) ==
  IF HighWord(t) < \H4002D97C THEN RemPio2Near(t, FSub(t, pio2_1))
  ELSE RemPio2Medium(t, NToInt(FTruncNat(FAdd(FMul(t, invpio2), FHalf))))

\* x = n * pi/2 + y0 + y1 with |y0 + y1| <= pi/4, for |x| above pi/4: the
\* code mirrors the steps for a negative x, which gives the negated result
\* of |x|
rem_pio2(x) == IF x.neg THEN RemPio2Negated(RemPio2Abs(FAbs(x))) ELSE RemPio2Abs(x)

CosReduced(res) ==
  IF res.n % 4 = 0 THEN kernel_cos(res.y0, res.y1)
  ELSE IF res.n % 4 = 1 THEN FNeg(kernel_sin(res.y0, res.y1, 1))
  ELSE IF res.n % 4 = 2 THEN FNeg(kernel_cos(res.y0, res.y1))
  ELSE kernel_sin(res.y0, res.y1, 1)

SinReduced(res) ==
  IF res.n % 4 = 0 THEN kernel_sin(res.y0, res.y1, 1)
  ELSE IF res.n % 4 = 1 THEN kernel_cos(res.y0, res.y1)
  ELSE IF res.n % 4 = 2 THEN FNeg(kernel_sin(res.y0, res.y1, 1))
  ELSE FNeg(kernel_cos(res.y0, res.y1))

\* Math.cos
MathCos(x) ==
  IF HighWord(x) <= \H3FE921FB THEN kernel_cos(x, FZero) ELSE CosReduced(rem_pio2(x))

\* Math.sin
MathSin(x) ==
  IF HighWord(x) <= \H3FE921FB THEN kernel_sin(x, FZero, 0) ELSE SinReduced(rem_pio2(x))

(***************************************************************************)
(* Cubic (lines 426-493).  curves is the sequence of the four control      *)
(* values, curves[i] of the source being curves[i + 1] here.               *)
(***************************************************************************)
\* calculate (lines 490-492):
\* 3.0 * a * (1 - m) * (1 - m) * m + 3.0 * b * (1 - m) * m * m + m * m * m,
\* the products and the sums taken from left to right
calculate(a, b, m) ==
  LET one == FFromInt(1)
      three == FFromInt(3)
      oneMinusM == FSub(one, m)
      first == FMul(FMul(FMul(FMul(three, a), oneMinusM), oneMinusM), m)
      second == FMul(FMul(FMul(FMul(three, b), oneMinusM), m), m)
      third == FMul(FMul(m, m), m)
  IN  FAdd(FAdd(first, second), third)

\* the literal 0.00001 of line 470
BisectTolerance == FDiv(FFromInt(1), FFromInt(100000))

\* the locals of a getValue call that has not run
CubicLocals(curves, time) ==
  [pc |-> "entry", curves |-> curves, time |-> time,
   start |-> FZero, mid |-> FZero, end |-> FFromInt(1), xEst |-> FZero,
   exit |-> "none", out |-> FZero, iters |-> 0]

\* lines 443-465 with the second branch of the end gradient left out (a
\* variant, not a model of the source)
getValueEntryWithoutSecondEndGradient(st) ==
  LET curves == st.curves
      time == st.time
      one == FFromInt(1)
  IN  IF ~FLess(FZero, time)
      THEN LET startGradient ==
                 IF FLess(FZero, curves[1]) THEN FDiv(curves[2], curves[1])
                 ELSE IF curves[2] = FZero /\ FLess(FZero, curves[3])
                 THEN FDiv(curves[4], curves[3])
                 ELSE FZero
           IN  [st EXCEPT !.pc = "done", !.exit = "startGradient",
                          !.out = FMul(startGradient, time)]
      ELSE IF ~FLess(time, one)
      THEN LET endGradient ==
                 IF FLess(curves[3], one)
                 THEN FDiv(FSub(curves[4], one), FSub(curves[3], one))
                 ELSE FZero
           IN  [st EXCEPT !.pc = "done", !.exit = "endGradient",
                          !.out = FAdd(one, FMul(endGradient, FSub(time, one)))]
      ELSE [st EXCEPT !.pc = "loop"]

\* lines 443-465: the two branches outside (0, 1), else into the loop
getValueEntry(st) ==
  LET curves == st.curves
      time == st.time
      one == FFromInt(1)
  IN  IF ~FLess(FZero, time)
      THEN LET startGradient ==
                 IF FLess(FZero, curves[1]) THEN FDiv(curves[2], curves[1])
                 ELSE IF curves[2] = FZero /\ FLess(FZero, curves[3])
                 THEN FDiv(curves[4], curves[3])
                 ELSE FZero
           IN  [st EXCEPT !.pc = "done", !.exit = "startGradient",
                          !.out = FMul(startGradient, time)]
      ELSE IF ~FLess(time, one)
      THEN LET endGradient ==
                 IF FLess(curves[3], one)
                 THEN FDiv(FSub(curves[4], one), FSub(curves[3], one))
                 ELSE IF curves[3] = one /\ FLess(curves[1], one)
                 THEN FDiv(FSub(curves[2], one), FSub(curves[1], one))
                 ELSE FZero
           IN  [st EXCEPT !.pc = "done", !.exit = "endGradient",
                          !.out = FAdd(one, FMul(endGradient, FSub(time, one)))]
      ELSE [st EXCEPT !.pc = "loop"]

\* line 468: mid = (start + end) / 2
BisectMid(st) ==
  [st EXCEPT !.mid = FDiv(FAdd(st.start, st.end), FFromInt(2))]

\* line 469: xEst = calculate(curves[0], curves[2], mid)
BisectEstimate(st) ==
  [st EXCEPT !.xEst = calculate(st.curves[1], st.curves[3], st.mid)]

\* lines 470-477 with the test of line 470 lacking Math.abs (a variant, not
\* a model of the source)
BisectDecideWithoutAbs(st) ==
  IF FLess(FSub(st.time, st.xEst), BisectTolerance)
  THEN [st EXCEPT !.pc = "done", !.exit = "tolerance",
                  !.out = calculate(st.curves[2], st.curves[4], st.mid)]
  ELSE IF FLess(st.xEst, st.time)
  THEN [st EXCEPT !.start = st.mid]
  ELSE [st EXCEPT !.end = st.mid]

\* lines 470-477: the return when xEst is within the tolerance of time, else
\* the half of the interval that is kept
BisectDecide(st) ==
  IF FLess(FAbs(FSub(st.time, st.xEst)), BisectTolerance)
  THEN [st EXCEPT !.pc = "done", !.exit = "tolerance",
                  !.out = calculate(st.curves[2], st.curves[4], st.mid)]
  ELSE IF FLess(st.xEst, st.time)
  THEN [st EXCEPT !.start = st.mid]
  ELSE [st EXCEPT !.end = st.mid]

\* lines 467-480: the loop test and one iteration of the bisection, or line
\* 480 when the loop test fails
BisectStep(st) ==
  IF FLess(st.start, st.end)
  THEN BisectDecide(BisectEstimate(BisectMid(st)))
  ELSE [st EXCEPT !.pc = "done", !.exit = "interval",
                  !.out = calculate(st.curves[2], st.curves[4], st.mid)]

RECURSIVE BisectRun(_)
BisectRun(st) == IF st.pc = "done" THEN st.out ELSE BisectRun(BisectStep(st))

\* getValue (lines 442-481)
getValue(curves, time) ==
  LET st == getValueEntry(CubicLocals(curves, time)) IN
  IF st.pc = "done" THEN st.out ELSE BisectRun(st)

\* a control value as solve leaves it: Number(x.toFixed(2)), p hundredths
Hundredths(p) == FDiv(FFromInt(p), FFromInt(100))

\* control values, in hundredths: the linear curve, and curves that take
\* each branch of the two gradients; the x-controls lie in [0, 1]
CubicCurves ==
  { << Hundredths(c[1]), Hundredths(c[2]), Hundredths(c[3]), Hundredths(c[4]) >> :
      c \in { <<0, 0, 100, 100>>, <<39, -20, 70, 100>>, <<100, 0, 0, 100>>,
              <<0, 50, 0, -75>>, <<25, 10, 100, 30>>, <<100, 100, 100, 100>>,
              <<0, 0, 0, 0>> } }

\* times j / totalTime, as getAnimationKey passes them, and times outside
\* (0, 1), the last being 2 ^ 53 + 2, the least number t above 1 for which
\* t - 1.0 is rounded
CubicTimes ==
  { FDyadic(j, -12) :
      j \in { -2048, 0, 1, 77, 410, 1024, 2048, 3000, 3375, 4095, 4096, 6144 } }
    \cup { FRound(FALSE, NAdd(NShl(<< 1 >>, SignificandBits - 1), << 1 >>), 1) }

(***************************************************************************)
(* interpolate and interpolateNum (part_000).  A value of type               *)
(* number | boolean is [type, num, bool]: type is what typeof gives, and     *)
(* the value is num for a number and bool for a boolean (the other field     *)
(* is FZero or FALSE).                                                       *)
(***************************************************************************)
Number(v) == [type |-> "number", num |-> v, bool |-> FALSE]
Boolean(b) == [type |-> "boolean", num |-> FZero, bool |-> b]

\* lines 32-46 with the two values exchanged in the boolean case (a variant,
\* not a model of the source)
interpolateNumBooleansExchanged(fromVal, toVal, f) ==
  IF fromVal.type = "number" /\ toVal.type = "number"
  THEN Returned(Number(FAdd(FMul(fromVal.num, FSub(FFromInt(1), f)),
                            FMul(toVal.num, f))))
  ELSE IF fromVal.type = "boolean" /\ toVal.type = "boolean"
  THEN Returned(IF FLess(f, FDyadic(1, -1)) THEN toVal ELSE fromVal)
  ELSE Threw

\* interpolateNum (lines 32-46)
interpolateNum(fromVal, toVal, f) ==
  IF fromVal.type = "number" /\ toVal.type = "number"
  THEN Returned(Number(FAdd(FMul(fromVal.num, FSub(FFromInt(1), f)),
                            FMul(toVal.num, f))))
  ELSE IF fromVal.type = "boolean" /\ toVal.type = "boolean"
  THEN Returned(IF FLess(f, FDyadic(1, -1)) THEN fromVal ELSE toVal)
  ELSE Threw

RECURSIVE InterpolateLoop(_, _, _, _)
\* lines 18-20: one pair after the other is interpolated and pushed to out;
\* the loop raises at the first pair that interpolateNum rejects
InterpolateLoop(fromList, toList, f, out) ==
  IF Len(out) = Len(fromList) THEN Returned(out)
  ELSE IF ~interpolateNum(fromList[Len(out) + 1], toList[Len(out) + 1], f).ok
  THEN Threw
  ELSE InterpolateLoop(fromList, toList, f,
                       Append(out, interpolateNum(fromList[Len(out) + 1],
                                                  toList[Len(out) + 1], f).val))

\* interpolate (lines 8-23)
interpolate(fromList, toList, f) ==
  IF Len(fromList) # Len(toList) THEN Threw
  ELSE InterpolateLoop(fromList, toList, f, << >>)

(***************************************************************************)
(* floatToHex (utils.ts), for a number x >= 0.  Every operation of the     *)
(* function is exact on JavaScript numbers (floors, divisions and          *)
(* multiplications by 16, differences of numbers of one scale), so its     *)
(* locals are kept as naturals: quotient is an integer, x and fraction     *)
(* are numerators over 2 ^ bits, bits being the number of binary places    *)
(* of the argument.  result is the array of pushed strings, joined on      *)
(* return.                                                                 *)
(***************************************************************************)
HexScale == 16 * 16

\* the digit pushed for a remainder: String.fromCharCode(r + 55) above 9,
\* r.toString() otherwise
HexDigitString(r) ==
  IF r > 9 THEN << FromCharCode(r + 55) >> ELSE NatToString(r, DecimalDigits)

\* the locals for the numerator xnum over 2 ^ bits
HexLocals(xnum, bits) ==
  [pc |-> "int", bits |-> bits, x |-> xnum, quotient |-> NShr(xnum, bits),
   fraction |-> NSub(xnum, NShl(NShr(xnum, bits), bits)),
   result |-> << >>, out |-> << >>]

\* lines 64-66: the locals on entry
floatToHexEntry(x) ==
  IF x.exp < 0 THEN HexLocals(x.mant, 0 - x.exp)
  ELSE HexLocals(NShl(x.mant, x.exp), 0)

\* HexIntBody with lowercase digits (a variant, not a model of the source)
HexIntBodyLowercase(st) ==
  LET q == NShr(st.x, st.bits + 4)
      remainder == NToInt(NShr(NSub(st.x, NShl(q, st.bits + 4)), st.bits))
  IN  [st EXCEPT !.quotient = q,
                 !.result = << << LowerHexDigits[remainder + 1] >> >> \o st.result,
                 !.x = NShl(q, st.bits)]

\* lines 68-79: one iteration of the integer-digit loop (quotient > 0)
HexIntBody(st) ==
  LET q == NShr(st.x, st.bits + 4)
      remainder == NToInt(NShr(NSub(st.x, NShl(q, st.bits + 4)), st.bits))
  IN  [st EXCEPT !.quotient = q,
                 !.result = << HexDigitString(remainder) >> \o st.result,
                 !.x = NShl(q, st.bits)]

\* lines 81-85: after the integer loop
HexIntExit(st) ==
  IF st.fraction = << >>
  THEN [st EXCEPT !.pc = "done", !.out = Concat(st.result)]
  ELSE [st EXCEPT !.pc = "frac", !.result = st.result \o << <<".">> >>]

\* lines 87-97: one iteration of the fraction loop (fraction > 0)
HexFracBody(st) ==
  LET f == NShl(st.fraction, 4)
      integer == NShr(f, st.bits)
  IN  [st EXCEPT !.fraction = NSub(f, NShl(integer, st.bits)),
                 !.result = st.result \o << HexDigitString(NToInt(integer)) >>]

\* line 99
HexFracExit(st) == [st EXCEPT !.pc = "done", !.out = Concat(st.result)]

HexStep(st) ==
  IF st.pc = "int"
  THEN IF st.quotient # << >> THEN HexIntBody(st) ELSE HexIntExit(st)
  ELSE IF st.fraction # << >> THEN HexFracBody(st) ELSE HexFracExit(st)

RECURSIVE HexRun(_)
HexRun(st) == IF st.pc = "done" THEN st.out ELSE HexRun(HexStep(st))

\* floatToHex (lines 63-100)
floatToHex(x) == HexRun(floatToHexEntry(x))

\* isOdd (utils.ts), of a non-negative integer: -1.0 or 0.0
isOdd(num) == IF num % 2 # 0 THEN FFromInt(-1) ELSE FZero

(***************************************************************************)
(* The homepage document, as far as the code queries it:                   *)
(*   meta     the element meta[name="twitter-site-verification"]: None     *)
(*            when the page has none, else Some(c) with c its content      *)
(*            attribute (None when the attribute is missing);              *)
(*   ondemand the first capture of ON_DEMAND_FILE_REGEX in the page's      *)
(*            HTML: None when the expression does not match;               *)
(*   frames   the elements [id^="loading-x-anim"] in document order, each  *)
(*            [path |-> whether it has a path descendant,                  *)
(*             d |-> the d attribute of its first path, None if missing].  *)
(***************************************************************************)
Document(meta, ondemand, frames) ==
  [meta |-> meta, ondemand |-> ondemand, frames |-> frames]

\* getKey (lines 131-148): the content attribute, or an exception
getKey(doc) ==
  IF doc.meta = None THEN Threw
  ELSE LET content == doc.meta[1] IN
       IF content = None \/ content[1] = << >> THEN Threw
       ELSE Returned(content[1])

\* getKeyBytes (lines 155-159): atob throws on a string that is not base64
getKeyBytes(key) == atob(key)

\* the row returned when the page has no usable frame data
FallbackFrameRow == <<0, 0, 0, 255, 255, 255, 120, 100, 100, 0, 0, 1>>

RECURSIVE Split(_, _)
\* String.prototype.split(sep) for a one-character separator
Split(s, sep) ==
  IF \E i \in 1..Len(s) : s[i] = sep
  THEN LET i == CHOOSE k \in 1..Len(s) :
                  s[k] = sep /\ \A j \in 1..(k - 1) : s[j] # sep
       IN  << SubSeq(s, 1, i - 1) >> \o Split(SubSeq(s, i + 1, Len(s)), sep)
  ELSE << s >>

\* item.replace(/[^\d]+/g, ' '): every maximal run of non-digits becomes one space
ReplaceNonDigitRuns(s) ==
  LET keep(i) == IsDigit(s[i]) \/ i = 1 \/ IsDigit(s[i - 1])
      kept == SelectSeq([i \in 1..Len(s) |-> i], keep)
  IN  [k \in 1..Len(kept) |-> IF IsDigit(s[kept[k]]) THEN s[kept[k]] ELSE " "]

\* String.prototype.trim
Trim(s) ==
  LET inner == {i \in 1..Len(s) : ~IsAsciiWhitespace(s[i])} IN
  IF inner = {} THEN << >>
  ELSE SubSeq(s, CHOOSE i \in inner : \A j \in inner : i <= j,
                 CHOOSE i \in inner : \A j \in inner : i >= j)

RECURSIVE parseInt(_)
\* parseInt(x, 10) of a non-empty string of digits
parseInt(x) ==
  IF Len(x) = 1 THEN DigitValue(x[1])
  ELSE 10 * parseInt(SubSeq(x, 1, Len(x) - 1)) + DigitValue(x[Len(x)])

\* lines 225-229: the integers of one path segment
SegmentIntegers(item) ==
  LET words == Split(Trim(ReplaceNonDigitRuns(item)), " ")
      nonEmpty == SelectSeq(words, LAMBDA x : Len(x) > 0)
  IN  [k \in 1..Len(nonEmpty) |-> parseInt(nonEmpty[k])]

\* get2DArray without the check of the first row (a variant, not a model of
\* the source)
get2DArrayUnchecked(keyBytes, frames) ==
  IF Len(keyBytes) < 6 THEN Threw
  ELSE IF Len(frames) = 0 THEN Returned(<< FallbackFrameRow >>)
  ELSE LET frame == frames[(keyBytes[6] % Len(frames)) + 1] IN
       IF ~frame.path \/ frame.d = None THEN Returned(<< FallbackFrameRow >>)
       ELSE LET segs == Split(SubSeq(frame.d[1], 10, Len(frame.d[1])), "C") IN
            Returned([i \in 1..Len(segs) |-> SegmentIntegers(segs[i])])

\* get2DArray (lines 179-239); keyBytes[5] is keyBytes[6] here, sequences
\* being 1-based
get2DArray(keyBytes, frames) ==
  IF Len(keyBytes) < 6 THEN Threw
  ELSE IF Len(frames) = 0 THEN Returned(<< FallbackFrameRow >>)
  ELSE LET frameIndex == keyBytes[6] % (IF Len(frames) > 1 THEN Len(frames) ELSE 1)
           frame == frames[frameIndex + 1]
       IN  IF ~frame.path THEN Returned(<< FallbackFrameRow >>)
           ELSE IF frame.d = None \/ frame.d[1] = << >>
                THEN Returned(<< FallbackFrameRow >>)
           ELSE LET pathData == frame.d[1] IN
                IF Len(pathData) < 10 THEN Returned(<< FallbackFrameRow >>)
                ELSE LET pathSegments == Split(SubSeq(pathData, 10, Len(pathData)), "C")
                         result == [i \in 1..Len(pathSegments) |->
                                      SegmentIntegers(pathSegments[i])]
                     IN  IF Len(result) = 0 \/ Len(result[1]) < 7
                         THEN Returned(<< FallbackFrameRow >>)
                         ELSE Returned(result)

(***************************************************************************)
(* The animation key.  A JavaScript number that may be NaN is              *)
(* [nan |-> TRUE, num |-> 0] or [nan |-> FALSE, num |-> n]: n is an        *)
(* integer for frameTime and the key nibbles, and a number [neg, mant,     *)
(* exp] for targetTime.                                                    *)
(***************************************************************************)
NaN == [nan |-> TRUE, num |-> 0]
Num(n) == [nan |-> FALSE, num |-> n]

\* line 323
totalTime == 4096

\* the string returned when the derivation fails (lines 312, 360) or the
\* key cannot be read from the page (line 71)
FallbackAnimationKey == <<"1","e","0","0","f","0","0">>

\* keyBytes[index] % 16: NaN when index is outside the array
KeyNibble(keyBytes, index) ==
  IF index >= 0 /\ index < Len(keyBytes) THEN Num(keyBytes[index + 1] % 16) ELSE NaN

NumTimes(a, b) == IF a.nan \/ b.nan THEN NaN ELSE Num(a.num * b.num)

RECURSIVE NibbleProduct(_, _, _)
\* indices.reduce((acc, index) => acc * (keyBytes[index] % 16), acc)
NibbleProduct(keyBytes, indices, acc) ==
  IF indices = << >> THEN acc
  ELSE NibbleProduct(keyBytes, Tail(indices),
                     NumTimes(acc, KeyNibble(keyBytes, Head(indices))))

\* solve (lines 249-252)
solve(value, minVal, maxVal, rounding) ==
  LET result == FAdd(FDiv(FMul(value, FSub(maxVal, minVal)), FFromInt(255)), minVal)
  IN  IF rounding THEN MathFloor(result) ELSE NumberToFixed2(result)

\* the lower-case letter of a capital letter; any other character is itself
LowerCaseOf(c) ==
  IF \E k \in 1..26 : B64Alphabet[k] = c
  THEN B64Alphabet[(CHOOSE k \in 1..26 : B64Alphabet[k] = c) + 26]
  ELSE c

RECURSIVE LowerCaseFrom(_, _)
LowerCaseFrom(s, out) ==
  IF Len(out) = Len(s) THEN out
  ELSE LowerCaseFrom(s, Append(out, LowerCaseOf(s[Len(out) + 1])))

\* String.prototype.toLowerCase on digits, '.', and capital letters
ToLowerCase(s) == LowerCaseFrom(s, << >>)

\* convertRotationToMatrix (utils.ts, lines 137-140); c and s are the values
\* of Math.cos(rad) and Math.sin(rad)
RotationMatrix(c, s) == << c, FNeg(s), s, c >>

RotationMatrixAt(rad) == RotationMatrix(MathCos(rad), MathSin(rad))

convertRotationToMatrix(rotation) ==
  RotationMatrixAt(FDiv(FMul(rotation, MathPI), FFromInt(180)))

\* lines 296-303: the piece pushed for hexValue
HexPiece(hexValue) ==
  IF hexValue # << >> /\ hexValue[1] = "."
  THEN <<"0">> \o ToLowerCase(hexValue)
  ELSE IF hexValue = << >> THEN <<"0">> ELSE hexValue

\* lines 293-303: the piece pushed for one matrix component; rounded is
\* Number(value.toFixed(2)), negated when below 0
MatrixPiece(value) == HexPiece(floatToHex(FAbs(NumberToFixed2(value))))

RECURSIVE MatrixPieces(_, _)
\* lines 292-304: the loop over matrix, strArr being the pieces so far
MatrixPieces(matrix, strArr) ==
  IF matrix = << >> THEN strArr
  ELSE MatrixPieces(Tail(matrix), Append(strArr, MatrixPiece(Head(matrix))))

\* lines 283 and 288-290: the piece of one colour component
ColorPiece(value) ==
  NToString16(MathRoundNat(IF FLess(FZero, value) THEN value ELSE FZero))

RECURSIVE ColorPieces(_, _)
\* lines 283 and 288-290: color.slice(0, -1).map(..), strArr being the
\* pieces so far
ColorPieces(color, strArr) ==
  IF Len(color) <= 1 THEN strArr
  ELSE ColorPieces(Tail(color), Append(strArr, ColorPiece(Head(color).num)))

\* lines 288-308: strArr joined, without '.' and '-'
AnimationString(color, matrix) ==
  SelectSeq(Concat(MatrixPieces(matrix, ColorPieces(color, << >>))
                   \o << <<"0">>, <<"0">> >>),
            LAMBDA c : c \notin {".", "-"})

\* lines 282-286: color and matrix for the value val of the curve
AnimateAt(fromColor, toColor, toRotation, val) ==
  AnimationString(interpolate(fromColor, toColor, val).val,
                  convertRotationToMatrix(
                    Head(interpolate(<< Number(FZero) >>, << Number(toRotation) >>,
                                     val).val).num))

RECURSIVE CurveValues(_, _)
\* lines 271-273: frames.slice(7).map((item, index) =>
\* solve(Number(item), isOdd(index), 1.0, false)), out being the values so far
CurveValues(rest, out) ==
  IF Len(out) = Len(rest) THEN out
  ELSE CurveValues(rest, Append(out, solve(FFromInt(rest[Len(out) + 1]),
                                           isOdd(Len(out)), FFromInt(1), FALSE)))

\* lines 275-308.  For a NaN targetTime Cubic.getValue returns 0: every
\* comparison of the bisection fails, end is halved down to 0 and
\* calculate(.., .., 0) is 0.
AnimateCurve(fromColor, toColor, toRotation, curveValues, targetTime) ==
  IF Len(curveValues) < 4 THEN FallbackAnimationKey
  ELSE AnimateAt(fromColor, toColor, toRotation,
                 IF targetTime.nan THEN FZero
                 ELSE getValue(curveValues, targetTime.num))

\* animate (lines 260-314); frames are non-negative integers
animate(frames, targetTime) ==
  IF Len(frames) < 7 THEN FallbackAnimationKey
  ELSE AnimateCurve(<< Number(FFromInt(frames[1])), Number(FFromInt(frames[2])),
                       Number(FFromInt(frames[3])), Number(FFromInt(1)) >>,
                    << Number(FFromInt(frames[4])), Number(FFromInt(frames[5])),
                       Number(FFromInt(frames[6])), Number(FFromInt(1)) >>,
                    solve(FFromInt(frames[7]), FFromInt(60), FFromInt(360), TRUE),
                    CurveValues(SubSeq(frames, 8, Len(frames)), << >>),
                    targetTime)

\* getAnimationKey (lines 321-362).  An exception anywhere gives the
\* fall-back key.  keyBytes[i] of an index outside the array is undefined, so
\* rowIndex is NaN and arr[NaN] undefined (line 350 throws); a NaN frameTime
\* does not throw.
getAnimationKey(keyBytes, defaultRowIndex, defaultKeyBytesIndices, frames) ==
  LET arr == get2DArray(keyBytes, frames) IN
  IF ~arr.ok THEN FallbackAnimationKey
  ELSE LET rowIndex == IF defaultRowIndex # None
                       THEN KeyNibble(keyBytes, defaultRowIndex[1])
                       ELSE KeyNibble(keyBytes, 2)
           frameTime ==
             IF defaultKeyBytesIndices # None /\ Len(defaultKeyBytesIndices[1]) > 0
             THEN NibbleProduct(keyBytes, defaultKeyBytesIndices[1], Num(1))
             ELSE NumTimes(NumTimes(KeyNibble(keyBytes, 12), KeyNibble(keyBytes, 14)),
                           KeyNibble(keyBytes, 7))
       IN  IF Len(arr.val) = 0 THEN FallbackAnimationKey
           ELSE IF rowIndex.nan THEN FallbackAnimationKey
           ELSE LET frameRow == arr.val[(rowIndex.num % Len(arr.val)) + 1] IN
                IF Len(frameRow) < 7 THEN FallbackAnimationKey
                ELSE animate(frameRow,
                             IF frameTime.nan THEN NaN
                             ELSE Num(FDiv(FFromInt(frameTime.num), FFromInt(totalTime))))

(***************************************************************************)
(* The inputs the model ranges over.                                       *)
(***************************************************************************)
\* site-verification contents: empty, white space, not base64, and keys of
\* 3, 8 and 16 bytes (two of them)
KeyOf3Bytes == <<"A","Q","I","D">>
KeyOf8Bytes == <<"A","Q","I","D","B","A","U","G","B","w","g","=">>
KeyOf16BytesA ==
  <<"E","S","I","D","R","F","U","B","d","w","M","J","C","g","s","M","B","A",
    "4","I","E","A","=","=">>
KeyOf16BytesB ==
  <<"E","S","E","C","R","F","U","A","d","x","A","J","C","g","s","M","B","A",
    "4","I","E","A","=","=">>

MetaElements ==
  { None, Some(None), Some(Some(<< >>)), Some(Some(<<" ">>)),
    Some(Some(<<"!","!">>)), Some(Some(KeyOf3Bytes)), Some(Some(KeyOf8Bytes)),
    Some(Some(KeyOf16BytesA)), Some(Some(KeyOf16BytesB)) }

\* what ON_DEMAND_FILE_REGEX captures: no match, an empty token, a token
OnDemandCaptures == { None, Some(<< >>), Some(<<"a","b","1">>) }

\* path data: too short; a first segment of four integers; three segments of
\* 11, 9 and 3 integers; one segment of 14 integers written with commas,
\* a decimal point and a minus sign
PathTooShort == <<"M"," ","0"," ","0">>
PathFirstRowShort == <<"M"," ","1","0",",","2","0"," ","C"," ","1"," ","2"," ","3"," ","4">>
PathThreeRows ==
  <<"M"," ","1","0",",","2","0"," ","C"," ","1"," ","2"," ","3"," ","4","0",
    " ","5","0"," ","6","0"," ","7","0"," ","8","0"," ","9","0"," ","1","0",
    "0"," ","1","1","0"," ","C"," ","7"," ","7"," ","7"," ","7"," ","7"," ",
    "7"," ","7"," ","8"," ","9"," ","C"," ","1"," ","2"," ","3">>
PathOneRow ==
  <<"M"," ","0",",","0"," ","0",",","0"," ","1","2",",","3","4"," ","5",".",
    "6","-","7"," ","2","5","5"," ","0"," ","9","9"," ","1","0","0"," ","1",
    "0","0"," ","0"," ","0"," ","1"," ","5">>

Frame(path, d) == [path |-> path, d |-> d]

FrameLists ==
  { << >>,
    << Frame(FALSE, None) >>,
    << Frame(TRUE, None) >>,
    << Frame(TRUE, Some(<< >>)) >>,
    << Frame(TRUE, Some(PathTooShort)) >>,
    << Frame(TRUE, Some(PathFirstRowShort)) >>,
    << Frame(TRUE, Some(PathThreeRows)) >>,
    << Frame(FALSE, None), Frame(TRUE, Some(PathOneRow)) >> }

Documents ==
  { Document(m, o, f) : m \in MetaElements, o \in OnDemandCaptures, f \in FrameLists }

\* the second captures of INDICES_REGEX in the fetched script, in order
ScriptBodies ==
  { << >>, <<2, 12, 14, 7>>, <<40, 12, 14, 7>>, <<0, 1, 99>>, <<8>>, <<1, 3, 4>> }

Methods == { <<"G","E","T">>, <<"P","O","S","T">> }
Paths == { <<"/","a">> }
\* the timeNow argument: omitted, 0, and 0x010203
TimeArguments == { None, Some(0), Some(66051) }
\* values of Math.floor(Math.random() * 256)
RandomBytes == { 0, 165 }

(***************************************************************************)
(* Program constants.                                                      *)
(***************************************************************************)
\* line 18
ADDITIONAL_RANDOM_NUMBER == 3

\* line 19
DEFAULT_KEYWORD == <<"o","b","f","i","o","w","e","r","e","h","i","r","i","n","g">>

\* line 68 with a character outside the base64 alphabet (a variant, not a
\* model of the source)
fallbackKeyNotBase64 == <<"T","W","V","u","d","G","l","v","b","m","V","k","*">>

\* line 68
fallbackKey ==
  <<"T","W","V","u","d","G","l","v","b","m","V","k","Q","n","l","P","Y","n",
    "N","l","c","n","Z","l","c","j","w","z","R","G","V","2","Z","W","x","v",
    "c","G","1","l","b","n","Q","=">>

\* lines 50-51 with the last index dropped (a variant, not a model of the
\* source)
FallbackIndicesShort == [row |-> 2, keyBytes |-> <<12, 14>>]

\* lines 50-51: the indices installed when the fetch fails
FallbackIndices == [row |-> 2, keyBytes |-> <<12, 14, 7>>]

\* line 378: 1682924400000 ms, in seconds (Date.now() is kept as seconds and
\* milliseconds, the offset being a whole number of seconds)
EpochOffsetSeconds == 1682924400

\* Math.floor((Date.now() - 1682924400000) / 1000)
DefaultTimeNow(clock) == clock.seconds - EpochOffsetSeconds

ClockStart == [seconds |-> 1793304000, millis |-> 123]

(***************************************************************************)
(* generateTransactionId (lines 371-421), as operators on its locals.      *)
(***************************************************************************)
\* line 378: timeNow || default; undefined and 0 are both falsy
EffectiveTimeNow(timeArg, clock) ==
  IF timeArg # None /\ timeArg[1] # 0 THEN timeArg[1] ELSE DefaultTimeNow(clock)

\* n >> bits for an int32 n (the model's timestamps are within int32)
ShiftRight(n, bits) == n \div (2 ^ bits)

\* lines 381-384
TimeNowBytes(timeNow) == [i \in 1..4 |-> ShiftRight(timeNow, (i - 1) * 8) % 256]

\* line 388
StringToHash(method, path, timeNow, animationKey) ==
  method \o <<"!">> \o path \o <<"!">> \o IntToString(timeNow)
    \o DEFAULT_KEYWORD \o animationKey

\* the loops of lines 402-414: bytesArr[pos++] = value ^ randomNum for each
\* value in turn, starting at index pos (a store outside the array is ignored)
StoreXor(arr, pos, values, randomNum) ==
  [i \in 1..Len(arr) |->
     IF i - 1 >= pos /\ i - 1 < pos + Len(values)
     THEN BitXor(values[i - pos], randomNum) % 256
     ELSE arr[i]]

\* lines 396-417: the buffer that is base64-encoded.  The array is allocated
\* with keyBytes.length + 4 + 16 + 1 elements, the random byte takes index 0,
\* so the last store (line 417) is at index length and is ignored.
AssembleBytes(keyBytes, timeNowBytes, hashBytes, randomNum) ==
  LET values == keyBytes \o timeNowBytes \o SubSeq(hashBytes, 1, 16)
      bytesArr == Uint8Store(Uint8Zeroes(Len(keyBytes) + Len(timeNowBytes) + 16 + 1),
                             0, randomNum)
      filled == StoreXor(bytesArr, 1, values, randomNum)
  IN  Uint8Store(filled, 1 + Len(values), BitXor(ADDITIONAL_RANDOM_NUMBER, randomNum))

\* line 420
EncodeToken(bytesArr) == StripPadding(base64Encode(bytesArr))

(***************************************************************************)
(* crypto.subtle.digest('SHA-256', encoder.encode(stringToHash)), line     *)
(* 389.  A 32-bit word is the pair << high 16 bits, low 16 bits >>.        *)
(***************************************************************************)
\* the characters with codes 32..126, in order (none is given for code 96)
AsciiPrintable ==
  <<" ","!","\"","#","$","%","&","'","(",")","*","+",",","-",".","/",
    "0","1","2","3","4","5","6","7","8","9",":",";","<","=",">","?",
    "@","A","B","C","D","E","F","G","H","I","J","K","L","M","N","O",
    "P","Q","R","S","T","U","V","W","X","Y","Z","[","\\","]","^","_",
    "","a","b","c","d","e","f","g","h","i","j","k","l","m","n","o",
    "p","q","r","s","t","u","v","w","x","y","z","{","|","}","~">>

\* TextEncoder.encode on a string of these characters: one byte each
TextEncode(str) ==
  [i \in 1..Len(str) |-> 31 + CHOOSE k \in 1..Len(AsciiPrintable) : AsciiPrintable[k] = str[i]]

HalfWord == 2 ^ 16

\* a ^ b and a & b on 4-bit values, at index 16 * a + b + 1
NibbleXor == [i \in 1..256 |-> BitXor((i - 1) \div 16, (i - 1) % 16)]

NibbleAnd ==
  [i \in 1..256 |->
     (BitXor((i - 1) \div 16, 0) + ((i - 1) % 16) - BitXor((i - 1) \div 16, (i - 1) % 16)) \div 2]

\* a bitwise operation on 16-bit values, nibble by nibble
HalfBitwise(table, a, b) ==
  table[16 * (a \div 4096) + (b \div 4096) + 1] * 4096
    + table[16 * ((a \div 256) % 16) + ((b \div 256) % 16) + 1] * 256
    + table[16 * ((a \div 16) % 16) + ((b \div 16) % 16) + 1] * 16
    + table[16 * (a % 16) + (b % 16) + 1]

WordXor(a, b) == << HalfBitwise(NibbleXor, a[1], b[1]), HalfBitwise(NibbleXor, a[2], b[2]) >>

WordAnd(a, b) == << HalfBitwise(NibbleAnd, a[1], b[1]), HalfBitwise(NibbleAnd, a[2], b[2]) >>

WordNot(a) == << HalfWord - 1 - a[1], HalfWord - 1 - a[2] >>

\* addition modulo 2 ^ 32
WordAdd(a, b) ==
  << (a[1] + b[1] + ((a[2] + b[2]) \div HalfWord)) % HalfWord, (a[2] + b[2]) % HalfWord >>

\* a >>> n, for n < 16
WordShiftRight(a, n) ==
  << a[1] \div (2 ^ n), (a[2] \div (2 ^ n)) + ((a[1] % (2 ^ n)) * (2 ^ (16 - n))) >>

\* a rotated right by n bits
WordRotateRight(a, n) ==
  IF n < 16
  THEN << (a[1] \div (2 ^ n)) + ((a[2] % (2 ^ n)) * (2 ^ (16 - n))),
          (a[2] \div (2 ^ n)) + ((a[1] % (2 ^ n)) * (2 ^ (16 - n))) >>
  ELSE << (a[2] \div (2 ^ (n - 16))) + ((a[1] % (2 ^ (n - 16))) * (2 ^ (32 - n))),
          (a[1] \div (2 ^ (n - 16))) + ((a[2] % (2 ^ (n - 16))) * (2 ^ (32 - n))) >>

\* the round constants and the initial hash value
Sha256K ==
  << <<17034, 12184>>, <<28983, 17553>>, <<46528, 64463>>, <<59829, 56229>>,
    <<14678, 49755>>, <<23025, 4593>>, <<37439, 33444>>, <<43804, 24277>>,
    <<55303, 43672>>, <<4739, 23297>>, <<9265, 34238>>, <<21772, 32195>>,
    <<29374, 23924>>, <<32990, 45566>>, <<39900, 1703>>, <<49563, 61812>>,
    <<58523, 27073>>, <<61374, 18310>>, <<4033, 40390>>, <<9228, 41420>>,
    <<11753, 11375>>, <<19060, 33962>>, <<23728, 43484>>, <<30457, 35034>>,
    <<38974, 20818>>, <<43057, 50797>>, <<45059, 10184>>, <<48985, 32711>>,
    <<50912, 3059>>, <<54695, 37191>>, <<1738, 25425>>, <<5161, 10599>>,
    <<10167, 2693>>, <<11803, 8504>>, <<19756, 28156>>, <<21304, 3347>>,
    <<25866, 29524>>, <<30314, 2747>>, <<33218, 51502>>, <<37490, 11397>>,
    <<41663, 59553>>, <<43034, 26187>>, <<49739, 35696>>, <<51052, 20899>>,
    <<53650, 59417>>, <<54937, 1572>>, <<62478, 13701>>, <<4202, 41072>>,
    <<6564, 49430>>, <<7735, 27656>>, <<10056, 30540>>, <<13488, 48309>>,
    <<14620, 3251>>, <<20184, 43594>>, <<23452, 51791>>, <<26670, 28659>>,
    <<29839, 33518>>, <<30885, 25455>>, <<33992, 30740>>, <<36039, 520>>,
    <<37054, 65530>>, <<42064, 27883>>, <<48889, 41975>>, <<50801, 30962>> >>

Sha256H ==
  << <<27145, 58983>>, <<47975, 44677>>, <<15470, 62322>>, <<42319, 62778>>,
    <<20750, 21119>>, <<39685, 26764>>, <<8067, 55723>>, <<23520, 52505>> >>

Sha256Ch(x, y, z) == WordXor(WordAnd(x, y), WordAnd(WordNot(x), z))

Sha256Maj(x, y, z) == WordXor(WordXor(WordAnd(x, y), WordAnd(x, z)), WordAnd(y, z))

Sha256BigSigma0(x) ==
  WordXor(WordXor(WordRotateRight(x, 2), WordRotateRight(x, 13)), WordRotateRight(x, 22))

Sha256BigSigma1(x) ==
  WordXor(WordXor(WordRotateRight(x, 6), WordRotateRight(x, 11)), WordRotateRight(x, 25))

Sha256SmallSigma0(x) ==
  WordXor(WordXor(WordRotateRight(x, 7), WordRotateRight(x, 18)), WordShiftRight(x, 3))

Sha256SmallSigma1(x) ==
  WordXor(WordXor(WordRotateRight(x, 17), WordRotateRight(x, 19)), WordShiftRight(x, 10))

\* the message with the 1 bit, the zero bytes and the 64-bit length in bits
\* (the length is below 2 ^ 32 bits)
Sha256Pad(bytes) ==
  bytes \o << 128 >>
    \o [i \in 1..((119 - (Len(bytes) % 64)) % 64) |-> 0]
    \o << 0, 0, 0, 0 >>
    \o [i \in 1..4 |-> ((8 * Len(bytes)) \div (256 ^ (4 - i))) % 256]

\* the 16 words of block k (from 0) of the padded message
Sha256Block(padded, k) ==
  SubSeq([j \in 1..16 |->
            << padded[64 * k + 4 * j - 3] * 256 + padded[64 * k + 4 * j - 2],
               padded[64 * k + 4 * j - 1] * 256 + padded[64 * k + 4 * j] >>], 1, 16)

RECURSIVE Sha256Schedule(_)
\* the message schedule, from its first 16 words
Sha256Schedule(w) ==
  IF Len(w) >= 64 THEN w
  ELSE Sha256Schedule(
         Append(w, WordAdd(WordAdd(Sha256SmallSigma1(w[Len(w) - 1]), w[Len(w) - 6]),
                           WordAdd(Sha256SmallSigma0(w[Len(w) - 14]), w[Len(w) - 15]))))

\* one round on the working variables v = << a, b, c, d, e, f, g, h >>, t1
\* being h + Sigma1(e) + Ch(e, f, g) + K[t] + W[t]
Sha256Rotate(v, t1) ==
  << WordAdd(t1, WordAdd(Sha256BigSigma0(v[1]), Sha256Maj(v[1], v[2], v[3]))),
     v[1], v[2], v[3], WordAdd(v[4], t1), v[5], v[6], v[7] >>

Sha256Round(v, k, w) ==
  Sha256Rotate(v, WordAdd(WordAdd(WordAdd(v[8], Sha256BigSigma1(v[5])),
                                  Sha256Ch(v[5], v[6], v[7])),
                          WordAdd(k, w)))

RECURSIVE Sha256Rounds(_, _)
\* the rounds from Len(v) - 7 on: the round number is carried as the length
\* of v, whose last eight elements are the working variables
Sha256Rounds(v, w) ==
  IF Len(v) >= 72 THEN SubSeq(v, Len(v) - 7, Len(v))
  ELSE Sha256Rounds(
         SubSeq(v, 1, Len(v) - 7)
           \o Sha256Round(SubSeq(v, Len(v) - 7, Len(v)), Sha256K[Len(v) - 7], w[Len(v) - 7]),
         w)

\* the hash value h with the working variables v added
Sha256Sum(h, v) ==
  << WordAdd(h[1], v[1]), WordAdd(h[2], v[2]), WordAdd(h[3], v[3]), WordAdd(h[4], v[4]),
     WordAdd(h[5], v[5]), WordAdd(h[6], v[6]), WordAdd(h[7], v[7]), WordAdd(h[8], v[8]) >>

\* the hash value after one more block
Sha256Compress(h, block) == Sha256Sum(h, Sha256Rounds(h, Sha256Schedule(block)))

RECURSIVE Sha256Blocks(_, _, _)
Sha256Blocks(h, padded, k) ==
  IF 64 * k >= Len(padded) THEN h
  ELSE Sha256Blocks(Sha256Compress(h, Sha256Block(padded, k)), padded, k + 1)

WordBytes(a) == << a[1] \div 256, a[1] % 256, a[2] \div 256, a[2] % 256 >>

\* the bytes of a hash value, each word from its high end
Sha256Bytes(h) ==
  WordBytes(h[1]) \o WordBytes(h[2]) \o WordBytes(h[3]) \o WordBytes(h[4])
    \o WordBytes(h[5]) \o WordBytes(h[6]) \o WordBytes(h[7]) \o WordBytes(h[8])

\* SHA-256 of a byte sequence: 32 bytes
Sha256(bytes) == Sha256Bytes(Sha256Blocks(Sha256H, Sha256Pad(bytes), 0))

\* values in the lists: numbers and booleans
InterpolateValues ==
  { Number(FFromInt(n)) : n \in { 0, 10, -255 } } \cup { Boolean(b) : b \in BOOLEAN }

\* lists of at most MaxListLen values
InterpolateLists ==
  UNION { [1..n -> InterpolateValues] : n \in 0..MaxListLen }

\* interpolation factors, in eighths: 0, 1, 0.5 and values on each side
InterpolateFactors == { FDyadic(k, -3) : k \in { 0, 3, 4, 5, 8 } }

(***************************************************************************)
(* State.                                                                  *)
(***************************************************************************)
VARIABLES
  doc,          \* the homepage document given to create
  customFetch,  \* whether create is given a fetch function
  cpc,          \* where create is: "new", "awaitFetch", "awaitText", "keys"
                \* (line 43, getIndicesWithFetch settled or not called), "done"
  inst,         \* the instance's fields, each None until assigned
  fetchCalls,   \* how many times the fetch function has been called
  fetched,      \* getIndicesWithFetch: "notCalled", "threw" or "returned"
  resolved,     \* the pair getIndicesWithFetch returned, None before it has
  created,      \* create's promise: "pending", "returned" or "raised"
  now,          \* Date.now()
  ticks,        \* how many times the clock has advanced
  calls,        \* the generateTransactionId calls, with their locals
  sha,          \* the digests computed so far, by hashed string
  hexArg,       \* floatToHex: the argument, as a numerator over HexScale
  hx,           \* floatToHex: its locals and position
  fx,           \* get2DArray: its arguments and result
  cb,           \* Cubic.getValue: its arguments, locals and position, and
                \* the number of loop iterations so far
  ip            \* interpolate: its arguments and result

vars == << doc, customFetch, cpc, inst, fetchCalls, fetched, resolved, created, now,
           ticks, calls, sha, hexArg, hx, fx, cb, ip >>

createVars == << doc, customFetch, cpc, inst, fetchCalls, fetched, resolved, created >>
callVars == << now, ticks, calls, sha >>
pureVars == << hexArg, hx, fx, cb, ip >>

NewInstance ==
  [defaultRowIndex |-> None, defaultKeyBytesIndices |-> None,
   key |-> None, keyBytes |-> None, animationKey |-> None]

IdleCall ==
  [pc |-> "idle", method |-> << >>, path |-> << >>, timeArg |-> None,
   startedAt |-> ClockStart, timeNow |-> 0, timeNowBytes |-> << >>,
   stringToHash |-> << >>, randomNum |-> 0, bytesArr |-> << >>, token |-> << >>]

IdleHex == [pc |-> "idle", bits |-> 0, x |-> << >>, quotient |-> << >>, fraction |-> << >>,
            result |-> << >>, out |-> << >>]

IdleFrames == [pc |-> "idle", keyBytes |-> << >>, frames |-> << >>, out |-> Threw]

IdleCubic ==
  [CubicLocals(<< FZero, FZero, FZero, FZero >>, FZero) EXCEPT !.pc = "idle"]

IdleInterpolate ==
  [pc |-> "idle", fromList |-> << >>, toList |-> << >>, f |-> FZero, out |-> Threw]

(***************************************************************************)
(* ClientTransaction.create (lines 34-75).                                 *)
(***************************************************************************)
\* lines 47-52: the catch of the first try block
WithFallbackIndices(i) ==
  [i EXCEPT !.defaultRowIndex = Some(FallbackIndices.row),
            !.defaultKeyBytesIndices = Some(FallbackIndices.keyBytes)]

\* lines 38-43 and 96-104: the constructor; without a fetch function the
\* indices stay null; with one, getIndicesWithFetch looks for the script
\* token in the page, throws without it (its promise is rejected, and create
\* waits for it at line 43), and else calls fetch and awaits it
CreateStart ==
  /\ cpc = "new"
  /\ IF ~customFetch
     THEN /\ cpc' = "keys"
          /\ UNCHANGED << fetchCalls, fetched >>
     ELSE IF doc.ondemand = None \/ doc.ondemand[1] = << >>
     THEN /\ cpc' = "keys"
          /\ fetched' = "threw"
          /\ UNCHANGED fetchCalls
     ELSE /\ cpc' = "awaitFetch"
          /\ fetchCalls' = fetchCalls + 1
          /\ UNCHANGED fetched
  /\ UNCHANGED << doc, customFetch, inst, resolved, created >>
  /\ UNCHANGED callVars /\ UNCHANGED pureVars

\* line 104: the fetch promise rejects
FetchRejects ==
  /\ cpc = "awaitFetch"
  /\ cpc' = "keys"
  /\ fetched' = "threw"
  /\ UNCHANGED << doc, customFetch, inst, fetchCalls, resolved, created >>
  /\ UNCHANGED callVars /\ UNCHANGED pureVars

\* lines 104-110: the fetch promise resolves with a response; a response
\* that is not ok makes getIndicesWithFetch throw, else its text is awaited
FetchResolves(ok) ==
  /\ cpc = "awaitFetch"
  /\ IF ok
     THEN /\ cpc' = "awaitText"
          /\ UNCHANGED fetched
     ELSE /\ cpc' = "keys"
          /\ fetched' = "threw"
  /\ UNCHANGED << doc, customFetch, inst, fetchCalls, resolved, created >>
  /\ UNCHANGED callVars /\ UNCHANGED pureVars

\* line 110: response.text() rejects
TextRejects ==
  /\ cpc = "awaitText"
  /\ cpc' = "keys"
  /\ fetched' = "threw"
  /\ UNCHANGED << doc, customFetch, inst, fetchCalls, resolved, created >>
  /\ UNCHANGED callVars /\ UNCHANGED pureVars

\* lines 110-124: the text arrives; keyByteIndices are the second captures
\* of the matches; none makes getIndicesWithFetch throw, else it returns the
\* first and the rest
TextResolves(keyByteIndices) ==
  /\ cpc = "awaitText"
  /\ cpc' = "keys"
  /\ IF Len(keyByteIndices) = 0
     THEN /\ fetched' = "threw"
          /\ UNCHANGED resolved
     ELSE /\ fetched' = "returned"
          /\ resolved' = Some(<< Head(keyByteIndices), Tail(keyByteIndices) >>)
  /\ UNCHANGED << doc, customFetch, inst, fetchCalls, created >>
  /\ UNCHANGED callVars /\ UNCHANGED pureVars

\* lines 43-45 and 47-52: create resumes from the await of line 43 (or has
\* skipped it): the returned pair is stored, or the indices of the catch
WithIndices(i) ==
  IF fetched = "returned"
  THEN [i EXCEPT !.defaultRowIndex = Some(resolved[1][1]),
                 !.defaultKeyBytesIndices = Some(resolved[1][2])]
  ELSE IF fetched = "threw" THEN WithFallbackIndices(i)
  ELSE i

\* lines 43-74, in one run: the indices are stored, then the second try
\* block and its catch.  instance.key is assigned before getKeyBytes can
\* throw; the catch decodes fallbackKey outside any try, so a throw there
\* would reject create's promise.
CreateInitKeys ==
  /\ cpc = "keys"
  /\ cpc' = "done"
  /\ LET k == getKey(doc)
         kb == IF k.ok THEN getKeyBytes(k.val) ELSE Threw
         fb == getKeyBytes(fallbackKey)
         i == WithIndices(inst)
     IN  IF kb.ok
         THEN /\ inst' = [i EXCEPT
                   !.key = Some(k.val),
                   !.keyBytes = Some(kb.val),
                   !.animationKey = Some(getAnimationKey(kb.val, i.defaultRowIndex,
                                           i.defaultKeyBytesIndices, doc.frames))]
              /\ created' = "returned"
         ELSE IF fb.ok
         THEN /\ inst' = [i EXCEPT !.key = Some(fallbackKey),
                                   !.keyBytes = Some(fb.val),
                                   !.animationKey = Some(FallbackAnimationKey)]
              /\ created' = "returned"
         ELSE /\ inst' = [i EXCEPT !.key = Some(fallbackKey)]
              /\ created' = "raised"
  /\ UNCHANGED << doc, customFetch, fetchCalls, fetched, resolved >>
  /\ UNCHANGED callVars /\ UNCHANGED pureVars

(***************************************************************************)
(* generateTransactionId (lines 371-421): a call runs up to the await of   *)
(* the digest, and resumes when the digest arrives.                        *)
(***************************************************************************)
\* lines 372-389.  Calls take the slots in order: the c-th call to start
\* is calls[c].
GenerateStart(c, method, path, timeArg) ==
  /\ created = "returned"
  /\ calls[c].pc = "idle"
  /\ \A d \in 1..(c - 1) : calls[d].pc # "idle"
  /\ IF inst.keyBytes = None \/ Len(inst.keyBytes[1]) = 0
     THEN calls' = [calls EXCEPT ![c] =
            [@ EXCEPT !.pc = "raised", !.method = method, !.path = path,
                      !.timeArg = timeArg, !.startedAt = now]]
     ELSE LET timeNow == EffectiveTimeNow(timeArg, now) IN
          calls' = [calls EXCEPT ![c] =
            [@ EXCEPT !.pc = "digest", !.method = method, !.path = path,
                      !.timeArg = timeArg, !.startedAt = now,
                      !.timeNow = timeNow,
                      !.timeNowBytes = TimeNowBytes(timeNow),
                      !.stringToHash = StringToHash(method, path, timeNow,
                                                    inst.animationKey[1])]]
  /\ UNCHANGED << now, ticks, sha >>
  /\ UNCHANGED createVars /\ UNCHANGED pureVars

\* GenerateResume writing the masked key back into the instance: the key
\* bytes XOR-ed in place (a variant, not a model of the source)
GenerateResumeMaskingInPlace(c, randomNum) ==
  /\ calls[c].pc = "digest"
  /\ LET hashBytes == Sha256(TextEncode(calls[c].stringToHash))
         bytesArr == AssembleBytes(inst.keyBytes[1], calls[c].timeNowBytes,
                                   hashBytes, randomNum)
     IN  /\ sha' = (calls[c].stringToHash :> hashBytes) @@ sha
         /\ calls' = [calls EXCEPT ![c] =
              [@ EXCEPT !.pc = "returned", !.randomNum = randomNum,
                        !.bytesArr = bytesArr, !.token = EncodeToken(bytesArr)]]
         /\ inst' = [inst EXCEPT !.keyBytes =
              Some([i \in 1..Len(inst.keyBytes[1]) |->
                      BitXor(inst.keyBytes[1][i], randomNum)])]
  /\ UNCHANGED << now, ticks >>
  /\ UNCHANGED << doc, customFetch, cpc, fetchCalls, fetched, resolved, created >>
  /\ UNCHANGED pureVars

\* lines 389-420
GenerateResume(c, randomNum) ==
  /\ calls[c].pc = "digest"
  /\ LET hashBytes == Sha256(TextEncode(calls[c].stringToHash))
         bytesArr == AssembleBytes(inst.keyBytes[1], calls[c].timeNowBytes,
                                   hashBytes, randomNum)
     IN  /\ sha' = (calls[c].stringToHash :> hashBytes) @@ sha
         /\ calls' = [calls EXCEPT ![c] =
              [@ EXCEPT !.pc = "returned", !.randomNum = randomNum,
                        !.bytesArr = bytesArr, !.token = EncodeToken(bytesArr)]]
  /\ UNCHANGED << now, ticks >>
  /\ UNCHANGED createVars /\ UNCHANGED pureVars

\* the clock advances
Tick ==
  /\ cpc = "done"
  /\ ticks < MaxTicks
  /\ ticks' = ticks + 1
  /\ now' = [now EXCEPT !.seconds = @ + 1]
  /\ UNCHANGED << calls, sha >>
  /\ UNCHANGED createVars /\ UNCHANGED pureVars

(***************************************************************************)
(* floatToHex, one loop iteration at a time.                               *)
(***************************************************************************)
HexIntIteration ==
  /\ hx.pc = "int" /\ hx.quotient # << >>
  /\ hx' = HexIntBody(hx)
  /\ UNCHANGED << hexArg, fx, cb, ip >> /\ UNCHANGED createVars /\ UNCHANGED callVars

HexIntDone ==
  /\ hx.pc = "int" /\ ~(hx.quotient # << >>)
  /\ hx' = HexIntExit(hx)
  /\ UNCHANGED << hexArg, fx, cb, ip >> /\ UNCHANGED createVars /\ UNCHANGED callVars

HexFracIteration ==
  /\ hx.pc = "frac" /\ hx.fraction # << >>
  /\ hx' = HexFracBody(hx)
  /\ UNCHANGED << hexArg, fx, cb, ip >> /\ UNCHANGED createVars /\ UNCHANGED callVars

HexFracDone ==
  /\ hx.pc = "frac" /\ ~(hx.fraction # << >>)
  /\ hx' = HexFracExit(hx)
  /\ UNCHANGED << hexArg, fx, cb, ip >> /\ UNCHANGED createVars /\ UNCHANGED callVars

(***************************************************************************)
(* get2DArray applied to its arguments.                                    *)
(***************************************************************************)
ExtractFrames ==
  /\ fx.pc = "call"
  /\ fx' = [fx EXCEPT !.pc = "done", !.out = get2DArray(fx.keyBytes, fx.frames)]
  /\ UNCHANGED << hexArg, hx, cb, ip >> /\ UNCHANGED createVars /\ UNCHANGED callVars

(***************************************************************************)
(* Cubic.getValue, one loop iteration at a time.                           *)
(***************************************************************************)
\* lines 443-465
CubicEnter ==
  /\ cb.pc = "entry"
  /\ cb' = getValueEntry(cb)
  /\ UNCHANGED << hexArg, hx, fx, ip >> /\ UNCHANGED createVars /\ UNCHANGED callVars

\* lines 467-480
BisectIteration ==
  /\ cb.pc = "loop"
  /\ cb.iters < MaxBisect
  /\ cb' = [BisectStep(cb) EXCEPT !.iters = @ + 1]
  /\ UNCHANGED << hexArg, hx, fx, ip >> /\ UNCHANGED createVars /\ UNCHANGED callVars

(***************************************************************************)
(* interpolate.                                                            *)
(***************************************************************************)
Interpolate ==
  /\ ip.pc = "call"
  /\ ip' = [ip EXCEPT !.pc = "done", !.out = interpolate(ip.fromList, ip.toList, ip.f)]
  /\ UNCHANGED << hexArg, hx, fx, cb >> /\ UNCHANGED createVars /\ UNCHANGED callVars

(***************************************************************************)
(* Specifications.                                                         *)
(***************************************************************************)
InitCalls ==
  /\ now = ClockStart
  /\ ticks = 0
  /\ calls = [c \in 1..MaxCalls |-> IdleCall]
  /\ sha = [str \in {} |-> << >>]

InitPure ==
  /\ hexArg = 0
  /\ hx = IdleHex
  /\ fx = IdleFrames
  /\ cb = IdleCubic
  /\ ip = IdleInterpolate

InitCreate ==
  /\ cpc = "new"
  /\ inst = NewInstance
  /\ fetchCalls = 0
  /\ fetched = "notCalled"
  /\ resolved = None
  /\ created = "pending"

\* create on every document, with and without a fetch function
InitDocuments ==
  /\ doc \in Documents
  /\ customFetch \in BOOLEAN
  /\ InitCreate /\ InitCalls /\ InitPure

CreateNext ==
  \/ CreateStart
  \/ FetchRejects
  \/ \E ok \in BOOLEAN : FetchResolves(ok)
  \/ TextRejects
  \/ \E body \in ScriptBodies : TextResolves(body)
  \/ CreateInitKeys

SpecCreate == InitDocuments /\ [][CreateNext]_vars

\* create, with and without a fetch function, on two pages (a 16-byte key
\* with three frame rows; a white-space key and a script token), then one
\* generateTransactionId call
CallDocuments ==
  { Document(Some(Some(KeyOf16BytesA)), None, << Frame(TRUE, Some(PathThreeRows)) >>),
    Document(Some(Some(<<" ">>)), Some(<<"a","b","1">>), << >>) }

Init ==
  /\ doc \in CallDocuments
  /\ customFetch \in BOOLEAN
  /\ InitCreate /\ InitCalls /\ InitPure

Next ==
  \/ CreateNext
  \/ \E m \in Methods, p \in Paths, t \in TimeArguments : GenerateStart(1, m, p, t)
  \/ \E r \in RandomBytes : GenerateResume(1, r)
  \/ Tick

Spec == Init /\ [][Next]_vars

\* create without a fetch function on a page with a 16-byte key and three
\* frame rows, then concurrent generateTransactionId calls for one method
\* and path, each drawing the same random byte
GenDocuments ==
  { Document(Some(Some(KeyOf16BytesA)), None, << Frame(TRUE, Some(PathThreeRows)) >>) }

GenMethods == { <<"G","E","T">> }
GenRandomBytes == { 165 }

InitGen ==
  /\ doc \in GenDocuments
  /\ customFetch = FALSE
  /\ InitCreate /\ InitCalls /\ InitPure

NextGen ==
  \/ CreateStart
  \/ CreateInitKeys
  \/ \E c \in 1..MaxCalls, m \in GenMethods, p \in Paths, t \in TimeArguments :
       GenerateStart(c, m, p, t)
  \/ \E c \in 1..MaxCalls, r \in GenRandomBytes : GenerateResume(c, r)
  \/ Tick

SpecGen == InitGen /\ [][NextGen]_vars

\* floatToHex on i + f / HexScale, which is hexArg * 2 ^ -8
HexFractions == { 0, 1, 16, 128, 200, 255 }

InitHex ==
  /\ hexArg \in { i * HexScale + f : i \in 0..MaxHexInt, f \in HexFractions }
  /\ hx = floatToHexEntry(FDyadic(hexArg, -8))
  /\ fx = IdleFrames
  /\ cb = IdleCubic
  /\ ip = IdleInterpolate
  /\ doc = Document(None, None, << >>)
  /\ customFetch = FALSE
  /\ InitCreate /\ InitCalls

NextHex == HexIntIteration \/ HexIntDone \/ HexFracIteration \/ HexFracDone

SpecHex == InitHex /\ [][NextHex]_vars /\ WF_vars(NextHex)

\* get2DArray on key bytes of 0, 3, 5, 6, 8, 16 and 32 bytes and every frame list
FrameKeyBytes ==
  { << >>, <<1, 2, 3>>, <<1, 2, 3, 4, 5>>, <<1, 2, 3, 4, 5, 6>>,
    atob(KeyOf8Bytes).val, atob(KeyOf16BytesA).val, atob(KeyOf16BytesB).val,
    atob(fallbackKey).val }

InitFrames ==
  /\ fx \in { [pc |-> "call", keyBytes |-> k, frames |-> f, out |-> Threw] :
                k \in FrameKeyBytes, f \in FrameLists }
  /\ hexArg = 0
  /\ hx = IdleHex
  /\ cb = IdleCubic
  /\ ip = IdleInterpolate
  /\ doc = Document(None, None, << >>)
  /\ customFetch = FALSE
  /\ InitCreate /\ InitCalls

NextFrames == ExtractFrames

SpecFrames == InitFrames /\ [][NextFrames]_vars

InitCubic ==
  /\ cb \in { CubicLocals(c, t) : c \in CubicCurves, t \in CubicTimes }
  /\ ip = IdleInterpolate
  /\ hexArg = 0
  /\ hx = IdleHex
  /\ fx = IdleFrames
  /\ doc = Document(None, None, << >>)
  /\ customFetch = FALSE
  /\ InitCreate /\ InitCalls

NextCubic == CubicEnter \/ BisectIteration

SpecCubic == InitCubic /\ [][NextCubic]_vars /\ WF_vars(NextCubic)

InitInterpolate ==
  /\ ip \in { [pc |-> "call", fromList |-> a, toList |-> b, f |-> f, out |-> Threw] :
                a \in InterpolateLists, b \in InterpolateLists, f \in InterpolateFactors }
  /\ hexArg = 0
  /\ hx = IdleHex
  /\ fx = IdleFrames
  /\ cb = IdleCubic
  /\ doc = Document(None, None, << >>)
  /\ customFetch = FALSE
  /\ InitCreate /\ InitCalls

SpecInterpolate == InitInterpolate /\ [][Interpolate]_vars

(***************************************************************************)
(* Properties.                                                             *)
(***************************************************************************)
XorAll(bytes, r) == [i \in 1..Len(bytes) |-> BitXor(bytes[i], r)]

Finished(c) == calls[c].pc = "returned"

\* C1: for every call that returned, the encoded buffer is
\* [r] ++ (SiteKey XOR r) ++ (4 timestamp bytes XOR r) ++ (digest[0..15] XOR r)
\* ++ [3 XOR r]: n + 22 bytes, the last one 3 XOR r.
C1_BufferLayout ==
  \A c \in 1..MaxCalls :
    Finished(c) =>
      LET r == calls[c].randomNum
          keyBytes == inst.keyBytes[1]
          digest == sha[calls[c].stringToHash]
      IN  /\ Len(calls[c].bytesArr) = Len(keyBytes) + 22
          /\ calls[c].bytesArr =
               << r >> \o XorAll(keyBytes, r) \o XorAll(calls[c].timeNowBytes, r)
                 \o XorAll(SubSeq(digest, 1, 16), r) \o << BitXor(3, r) >>

\* what the code does instead: n + 21 bytes, the constant left out
C1_BufferWithoutConstant ==
  \E c \in 1..MaxCalls :
    /\ Finished(c)
    /\ Len(calls[c].bytesArr) = Len(inst.keyBytes[1]) + 21
    /\ calls[c].bytesArr[Len(calls[c].bytesArr)] =
         BitXor(sha[calls[c].stringToHash][16], calls[c].randomNum)

\* C2: create never raises, and when it returns key, keyBytes and
\* animationKey are all set, for every document and every behaviour of the
\* fetch function.
C2_CreateNeverRaises ==
  /\ created # "raised"
  /\ cpc = "done" =>
       /\ created = "returned"
       /\ inst.key # None /\ inst.keyBytes # None /\ inst.animationKey # None

\* create has returned for a page with no usable key, after a failed fetch
C2_ReturnedOnGarbage ==
  /\ cpc = "done" /\ created = "returned"
  /\ doc.meta = Some(Some(<<"!","!">>))
  /\ customFetch /\ fetched = "threw" /\ fetchCalls = 1
  /\ inst.key = Some(fallbackKey)

\* C3: after create returns, keyBytes is non-empty and no
\* generateTransactionId call raises.
C3_KeyBytesNonEmpty ==
  cpc = "done" =>
    /\ inst.keyBytes # None /\ Len(inst.keyBytes[1]) > 0
    /\ \A c \in 1..MaxCalls : calls[c].pc # "raised"

\* the caller's timestamp value is in the hashed string, after the path
HashedStringHas(c, t) ==
  calls[c].stringToHash =
    calls[c].method \o <<"!">> \o calls[c].path \o <<"!">> \o IntToString(t)
      \o DEFAULT_KEYWORD \o inst.animationKey[1]

\* C4: a call uses the caller's timestamp whenever one is supplied, 0
\* included (the packed bytes are its little-endian bytes and the hashed
\* string contains it), and the clock only when the argument is omitted.
C4_CallerTimestampUsed ==
  \A c \in 1..MaxCalls :
    calls[c].pc \in {"digest", "returned"} =>
      IF calls[c].timeArg # None
      THEN LET t == calls[c].timeArg[1] IN
           /\ calls[c].timeNow = t
           /\ calls[c].timeNowBytes = [i \in 1..4 |-> (t \div (256 ^ (i - 1))) % 256]
           /\ HashedStringHas(c, t)
      ELSE calls[c].timeNow = DefaultTimeNow(calls[c].startedAt)

\* the key could be read from the page
KeyRead == getKey(doc).ok /\ getKeyBytes(getKey(doc).val).ok

\* C5: the fetch function is called at most once, the animation key is set
\* only once create is past the fetch, and when the fetch is not attempted
\* or fails the key is the one derived with row index 2 and key-byte
\* indices [12, 14, 7].
C5_FetchOnceThenDefaults ==
  /\ fetchCalls <= 1
  /\ inst.animationKey # None => cpc = "done"
  /\ (cpc = "done" /\ fetched # "returned" /\ KeyRead) =>
       inst.animationKey =
         Some(getAnimationKey(inst.keyBytes[1], Some(2), Some(<<12, 14, 7>>), doc.frames))

\* create is done after a fetch that failed, and the key was derived (it is
\* not the fall-back string)
C5_DerivedAfterFailedFetch ==
  /\ cpc = "done" /\ customFetch /\ fetchCalls = 1 /\ fetched = "threw"
  /\ KeyRead
  /\ inst.animationKey # Some(FallbackAnimationKey)
  /\ inst.defaultKeyBytesIndices = Some(<<12, 14, 7>>)

\* the four inputs of a call that was given a timestamp
Inputs(c) ==
  << calls[c].method, calls[c].path, calls[c].timeArg[1], calls[c].randomNum >>

\* C6: on one instance, two calls given the same (method, path, timestamp,
\* randomByte) return the same token, and two calls that differ in exactly
\* one of the four return different tokens.
C6_TokenFunctionOfInputs ==
  \A c, d \in 1..MaxCalls :
    (Finished(c) /\ Finished(d) /\ calls[c].timeArg # None /\ calls[d].timeArg # None) =>
      LET differing == {k \in 1..4 : Inputs(c)[k] # Inputs(d)[k]} IN
      /\ differing = {} => calls[c].token = calls[d].token
      /\ Cardinality(differing) = 1 => calls[c].token # calls[d].token

\* the token call c returns when run alone: from the instance, the call's
\* arguments, the clock when it started and its random byte
TokenAlone(c) ==
  LET timeNow == EffectiveTimeNow(calls[c].timeArg, calls[c].startedAt)
      str == StringToHash(calls[c].method, calls[c].path, timeNow, inst.animationKey[1])
  IN  EncodeToken(AssembleBytes(inst.keyBytes[1], TimeNowBytes(timeNow),
                                sha[str], calls[c].randomNum))

\* C7: once create has returned no step writes the instance's fields, and
\* every call that has returned, however the calls interleave around the
\* digest, has returned the token it returns when run alone.
C7_InstanceImmutable ==
  /\ [][created = "returned" => inst' = inst]_vars
  /\ [](\A c \in 1..MaxCalls : Finished(c) => calls[c].token = TokenAlone(c))

\* the second call started later than the first and returned while the
\* first still awaits its digest
C7_Overtaken ==
  /\ MaxCalls >= 2
  /\ calls[1].pc = "digest" /\ Finished(2)
  /\ calls[2].startedAt.seconds > calls[1].startedAt.seconds
  /\ calls[2].token = TokenAlone(2)

\* the positions of the key bytes that getAnimationKey reads
RowIndexPosition == IF inst.defaultRowIndex # None THEN inst.defaultRowIndex[1] ELSE 2

FrameTimePositions ==
  IF inst.defaultKeyBytesIndices # None /\ Len(inst.defaultKeyBytesIndices[1]) > 0
  THEN inst.defaultKeyBytesIndices[1]
  ELSE <<12, 14, 7>>

InKey(index) == index >= 0 /\ index < Len(inst.keyBytes[1])

\* a step of the derivation fails: the frames cannot be extracted, a
\* configured index is outside the key, or the selected row has fewer than
\* 7 integers or fewer than 4 curve-control entries (after the first 7)
DerivationStepFails ==
  LET keyBytes == inst.keyBytes[1]
      arr == get2DArray(keyBytes, doc.frames)
  IN  \/ ~arr.ok
      \/ ~InKey(RowIndexPosition)
      \/ \E k \in 1..Len(FrameTimePositions) : ~InKey(FrameTimePositions[k])
      \/ /\ arr.ok /\ InKey(RowIndexPosition)
         /\ Len(arr.val[((keyBytes[RowIndexPosition + 1] % 16) % Len(arr.val)) + 1]) < 7 + 4

\* C8: after create animationKey is a non-empty string, and it is "1e00f00"
\* whenever a derivation step fails.
C8_FallbackOnAnyFailure ==
  cpc = "done" =>
    /\ inst.animationKey # None /\ Len(inst.animationKey[1]) > 0
    /\ DerivationStepFails => inst.animationKey[1] = <<"1","e","0","0","f","0","0">>

\* C9 as stated: get2DArray never raises, for every key.
C9_NeverRaises == fx.pc = "done" => fx.out.ok

\* the number of integers written in a string: its maximal runs of digits
CountDigitRuns(s) ==
  Cardinality({i \in 1..Len(s) : IsDigit(s[i]) /\ (i = 1 \/ ~IsDigit(s[i - 1]))})

\* the text of the first row: from the tenth character to the first 'C'
FirstRowText(d) ==
  LET rest == SubSeq(d, 10, Len(d))
      stops == {i \in 1..Len(rest) : rest[i] = "C"}
  IN  IF stops = {} THEN rest
      ELSE SubSeq(rest, 1, (CHOOSE i \in stops : \A j \in stops : i <= j) - 1)

\* the document gives no usable frame data for the key
NoUsableFrameData(keyBytes, frames) ==
  \/ Len(frames) = 0
  \/ LET frame == frames[(keyBytes[6] % Len(frames)) + 1] IN
     \/ ~frame.path
     \/ frame.d = None
     \/ CountDigitRuns(FirstRowText(frame.d[1])) < 7

\* C9, amended: for a key of at least 6 bytes get2DArray never raises, and
\* returns exactly the single fall-back row when the document has no frames,
\* the selected frame has no path or no path data, or the first row of the
\* parsed data has fewer than 7 integers; for a key of fewer than 6 bytes it
\* raises.
C9_FailsSoftFromSixBytes ==
  fx.pc = "done" =>
    IF Len(fx.keyBytes) >= 6
    THEN /\ fx.out.ok
         /\ NoUsableFrameData(fx.keyBytes, fx.frames) =>
              fx.out.val = << <<0, 0, 0, 255, 255, 255, 120, 100, 100, 0, 0, 1>> >>
         /\ ~NoUsableFrameData(fx.keyBytes, fx.frames) =>
              /\ Len(fx.out.val) >= 1
              /\ Len(fx.out.val[1]) >= 7
    ELSE ~fx.out.ok

\* the fall-back row was returned for a path whose first row is short
C9_ShortFirstRow ==
  /\ fx.pc = "done" /\ Len(fx.keyBytes) >= 6
  /\ Len(fx.frames) = 1 /\ fx.frames[1].path /\ fx.frames[1].d # None
  /\ Len(fx.frames[1].d[1]) >= 10
  /\ CountDigitRuns(FirstRowText(fx.frames[1].d[1])) \in 1..6
  /\ fx.out = Returned(<< FallbackFrameRow >>)

UpperHexDigits ==
  <<"0","1","2","3","4","5","6","7","8","9","A","B","C","D","E","F">>

\* the base-16 representation of xnum / HexScale: the digits of the integer
\* part with no leading zero (none for 0), then '.' and the digits of the
\* fraction when it is not 0
HexReference(xnum) ==
  LET i == xnum \div HexScale
      f == xnum % HexScale
      n == CHOOSE k \in 0..8 : 16 ^ k > i /\ (k = 0 \/ 16 ^ (k - 1) <= i)
      intDigits == [k \in 1..n |-> UpperHexDigits[((i \div (16 ^ (n - k))) % 16) + 1]]
      fracDigits == IF f = 0 THEN << >>
                    ELSE <<".", UpperHexDigits[(f \div 16) + 1]>>
                         \o (IF f % 16 = 0 THEN << >> ELSE << UpperHexDigits[(f % 16) + 1] >>)
  IN  intDigits \o fracDigits

\* C10: floatToHex returns the base-16 representation with uppercase digits
\* and no leading zeros ("" for 0, "FF" for 255, ".8" for 0.5), and its
\* integer-digit loop terminates: quotient is a natural number that every
\* iteration of the loop lowers, and the loop is left when it is 0.
C10_HexDigits ==
  /\ [](hx.pc = "done" =>
          /\ hx.out = HexReference(hexArg)
          /\ hexArg = 255 * HexScale => hx.out = <<"F","F">>
          /\ hexArg = HexScale \div 2 => hx.out = <<".","8">>
          /\ hexArg = 0 => hx.out = << >>)
  /\ [][(hx.pc = "int" /\ hx'.pc = "int") => NCmp(hx'.quotient, hx.quotient) < 0]_vars
  /\ [][(hx.pc = "int" /\ hx.quotient = << >>) => hx'.pc # "int"]_vars

\* floatToHex has returned a result with a letter digit in the integer part
\* and a fraction
C10_LetterAndFraction ==
  /\ hx.pc = "done"
  /\ hexArg = 255 * HexScale + 128
  /\ hx.out = <<"F","F",".","8">>

\* the control values [0, 0, 1, 1] of the linear curve
IdentityCurve == << FZero, FZero, FFromInt(1), FFromInt(1) >>

\* 2 ^ 53: up to it, time - 1.0 is exact for every time >= 1
ExactIntegerLimit == FDyadic(1, SignificandBits)

\* C11, as stated: for the linear curve [0, 0, 1, 1], getValue(t) equals t for
\* every t, in each of the three branches.
C11_IdentityEverywhere ==
  (cb.pc = "done" /\ cb.curves = IdentityCurve) => cb.out = cb.time

\* C11, amended: for the linear curve [0, 0, 1, 1], getValue(t) equals t for
\* t <= 0 through the start-gradient branch and for 1 <= t <= 2 ^ 53 through
\* the end-gradient branch; for 0 < t < 1 the bisection returns, through the
\* tolerance test, the curve value at its last mid, which is within 0.00001
\* of t.
C11_IdentityWithinTolerance ==
  (cb.pc = "done" /\ cb.curves = IdentityCurve) =>
    /\ ~FLess(FZero, cb.time) =>
         cb.exit = "startGradient" /\ cb.out = cb.time
    /\ (~FLess(cb.time, FFromInt(1)) /\ ~FLess(ExactIntegerLimit, cb.time)) =>
         cb.exit = "endGradient" /\ cb.out = cb.time
    /\ ~FLess(cb.time, FFromInt(1)) => cb.exit = "endGradient"
    /\ (FLess(FZero, cb.time) /\ FLess(cb.time, FFromInt(1))) =>
         /\ cb.exit = "tolerance"
         /\ cb.out = cb.xEst
         /\ FLess(FAbs(FSub(cb.time, cb.out)), BisectTolerance)

\* getValue(0.25) of the linear curve has returned, through the tolerance
\* test of its 14th iteration, a value that is not 0.25
C11_QuarterIsApproximate ==
  /\ cb.pc = "done" /\ cb.curves = IdentityCurve
  /\ cb.time = FDyadic(1, -2)
  /\ cb.exit = "tolerance" /\ cb.iters = 14
  /\ cb.out # cb.time

\* the integer n for a number x = n / 8 of small magnitude
ToEighths(x) ==
  IF x.mant = << >> THEN 0
  ELSE (IF x.neg THEN -1 ELSE 1)
       * (NDigit(NShr(x.mant, 0 - (x.exp + 3)), 1)
          + (LimbBase * NDigit(NShr(x.mant, 0 - (x.exp + 3)), 2)))

\* C12: interpolate raises when the lists differ in length or a pair mixes a
\* number with a boolean; otherwise it returns a list of the same length whose
\* i-th element is from[i] * (1 - f) + to[i] * f for numbers (from[i] for
\* f = 0 and to[i] for f = 1) and, for booleans, from[i] when f < 0.5 and
\* to[i] when f >= 0.5.
C12_Interpolate ==
  ip.pc = "done" =>
    IF \/ Len(ip.fromList) # Len(ip.toList)
       \/ \E i \in 1..Len(ip.fromList) : ip.fromList[i].type # ip.toList[i].type
    THEN ~ip.out.ok
    ELSE /\ ip.out.ok
         /\ Len(ip.out.val) = Len(ip.fromList)
         /\ \A i \in 1..Len(ip.fromList) :
              IF ip.fromList[i].type = "number"
              THEN /\ ip.out.val[i].type = "number"
                   /\ ip.out.val[i].num = FDyadic(ToEighths(ip.out.val[i].num), -3)
                   /\ 8 * ToEighths(ip.out.val[i].num)
                        = (ToEighths(ip.fromList[i].num) * (8 - ToEighths(ip.f)))
                          + (ToEighths(ip.toList[i].num) * ToEighths(ip.f))
                   /\ ip.f = FZero => ip.out.val[i] = ip.fromList[i]
                   /\ ip.f = FFromInt(1) => ip.out.val[i] = ip.toList[i]
              ELSE ip.out.val[i] = (IF ToEighths(ip.f) < 4 THEN ip.fromList[i]
                                    ELSE ip.toList[i])

\* interpolate([0, true], [10, false], 0.5) has returned [5, false]
C12_HalfWay ==
  /\ ip.pc = "done"
  /\ ip.fromList = << Number(FZero), Boolean(TRUE) >>
  /\ ip.toList = << Number(FFromInt(10)), Boolean(FALSE) >>
  /\ ip.f = FDyadic(1, -1)
  /\ ip.out = Returned(<< Number(FFromInt(5)), Boolean(FALSE) >>)

\* a call with 0 < time < 1 whose x-controls curves[0] and curves[2] lie in
\* [0, 1]
BisectionCase ==
  /\ FLess(FZero, cb.time) /\ FLess(cb.time, FFromInt(1))
  /\ ~FLess(cb.curves[1], FZero) /\ ~FLess(FFromInt(1), cb.curves[1])
  /\ ~FLess(cb.curves[3], FZero) /\ ~FLess(FFromInt(1), cb.curves[3])

\* C13: for 0 < t < 1 and x-controls in [0, 1] the bisection loop of getValue
\* terminates: every iteration that does not return strictly narrows the
\* interval [start, end] to a part of itself, the loop condition start < end
\* holds at each of fewer than MaxBisect iterations, and the loop is left by
\* returning calculate(curves[1], curves[3], mid) for a mid with
\* |calculate(curves[0], curves[2], mid) - t| < 0.00001.
C13_BisectionTerminates ==
  /\ [][(BisectionCase /\ cb.pc = "loop") =>
          /\ cb'.iters = cb.iters + 1
          /\ cb'.pc = "loop" =>
               /\ ~FLess(cb'.start, cb.start) /\ ~FLess(cb.end, cb'.end)
               /\ FLess(cb'.start, cb'.end)
               /\ FLess(FSub(cb'.end, cb'.start), FSub(cb.end, cb.start))]_vars
  /\ []((BisectionCase /\ cb.pc = "loop") =>
          cb.iters < MaxBisect /\ FLess(cb.start, cb.end))
  /\ []((BisectionCase /\ cb.pc = "done") =>
          /\ cb.exit = "tolerance"
          /\ cb.iters >= 1 /\ cb.iters < MaxBisect
          /\ FLess(cb.start, cb.mid) /\ FLess(cb.mid, cb.end)
          /\ FLess(FAbs(FSub(calculate(cb.curves[1], cb.curves[3], cb.mid),
                             cb.time)),
                   BisectTolerance)
          /\ cb.out = calculate(cb.curves[2], cb.curves[4], cb.mid))

\* getValue(0.1) of the curve [0.39, -0.2, 0.7, 1] has returned through the
\* tolerance test after narrowing the interval from both sides
C13_NarrowedFromBothSides ==
  /\ BisectionCase /\ cb.pc = "done" /\ cb.exit = "tolerance"
  /\ cb.curves = << Hundredths(39), Hundredths(-20), Hundredths(70), Hundredths(100) >>
  /\ cb.time = FDyadic(410, -12)
  /\ FLess(FZero, cb.start) /\ FLess(cb.end, FFromInt(1))
  /\ cb.iters > 10

====
